---- MODULE Spec2Model ----
(***************************************************************************)
(* A model of the query-understanding and analytics pipeline of            *)
(* macro_econ_db: QueryParser (services/nlp/query_parser.py), DataAnalyzer *)
(* (services/analytics/analyzer.py) and ReportGenerator                    *)
(* (services/analytics/reqort_generator.py).                               *)
(*                                                                         *)
(* Text is a sequence of Unicode code points (a Python str), so that       *)
(* substring tests, str.lower() and the year regular expression are        *)
(* computed character by character.  A datetime is a record                *)
(* [year, month, day]; the time of day plays no part in the code modelled. *)
(* Floating-point numbers are exact rationals [n, d]; d = 0 stands for the *)
(* IEEE values inf (n > 0), -inf (n < 0) and NaN (n = 0).                  *)
(***************************************************************************)
EXTENDS Integers, Sequences, FiniteSets, TLC

VARIABLES
    ppc,              \* parser run: "ready" before parse_query is called, "parsed" after
    query,            \* the argument handed to parse_query
    now,              \* what datetime.now() returns during the call
    parsed,           \* the dict parse_query returned
    pc,               \* analysis run: "input", "analyzed", "reported"
    data,             \* the list of series handed to analyze_data
    query_params,     \* the query dict handed to analyze_data and generate_report
    analysis_result,  \* the dict analyze_data returned
    report            \* the dict generate_report returned

vars == <<ppc, query, now, parsed, pc, data, query_params, analysis_result, report>>
parserVars == <<ppc, query, now, parsed>>
analysisVars == <<pc, data, query_params, analysis_result, report>>

\* A value that is no dict: the result slot before the call returns.
NoValue == [none |-> TRUE]

(***************************************************************************)
(* Bounds                                                                  *)
(***************************************************************************)
\* Generated query texts are concatenations of at most MaxWords fragments.
MaxWords == 2
\* An analysis run is handed at most MaxSeries series.
MaxSeries == 3

(***************************************************************************)
(* Python str operations                                                   *)
(***************************************************************************)
\* str.lower() on one character: A-Z map to a-z; digits, punctuation and CJK
\* ideographs have no case.
LowerChar(c) == IF c >= 65 /\ c <= 90 THEN c + 32 ELSE c

Lower(s) == [i \in 1..Len(s) |-> LowerChar(s[i])]

\* needle in hay
Contains(needle, hay) ==
    \E i \in 0..(Len(hay) - Len(needle)) :
        \A j \in 1..Len(needle) : hay[i + j] = needle[j]

\* \d for the characters of the model's alphabet (ASCII digits).
IsDigit(c) == c >= 48 /\ c <= 57

\* \w of a str pattern: Unicode alphanumerics and the underscore.  CJK
\* ideographs (U+4E00..U+9FFF) are alphanumeric.
IsWordChar(c) ==
    \/ IsDigit(c)
    \/ c >= 65 /\ c <= 90
    \/ c >= 97 /\ c <= 122
    \/ c = 95
    \/ c >= 19968 /\ c <= 40959

\* \b between positions i and i+1 of s (i = 0: the start, i = Len(s): the end).
WordBoundary(s, i) ==
    LET before == i >= 1 /\ IsWordChar(s[i])
        after == i < Len(s) /\ IsWordChar(s[i + 1])
    IN  before # after

(***************************************************************************)
(* datetime                                                                *)
(***************************************************************************)
datetime(y, m, d) == [year |-> y, month |-> m, day |-> d]

IsLeap(y) == (y % 4 = 0) /\ ((y % 100 # 0) \/ (y % 400 = 0))

DaysInMonth(y, m) ==
    IF m = 2 THEN (IF IsLeap(y) THEN 29 ELSE 28)
    ELSE IF m \in {4, 6, 9, 11} THEN 30 ELSE 31

RECURSIVE DaysBeforeMonth(_, _)
DaysBeforeMonth(y, m) ==
    IF m = 1 THEN 0 ELSE DaysBeforeMonth(y, m - 1) + DaysInMonth(y, m - 1)

DaysBeforeYear(y) ==
    (y - 1) * 365 + ((y - 1) \div 4) - ((y - 1) \div 100) + ((y - 1) \div 400)

\* datetime.toordinal(): day 1 is 0001-01-01.
ToOrdinal(dt) == DaysBeforeYear(dt.year) + DaysBeforeMonth(dt.year, dt.month) + dt.day

\* datetime.fromordinal(n), for the years a query window can fall in.
FromOrdinal(n) ==
    LET y == CHOOSE yy \in 1..2200 : DaysBeforeYear(yy) < n /\ n <= DaysBeforeYear(yy + 1)
        r == n - DaysBeforeYear(y)
        m == CHOOSE mm \in 1..12 :
                 DaysBeforeMonth(y, mm) < r /\ r <= DaysBeforeMonth(y, mm) + DaysInMonth(y, mm)
    IN  datetime(y, m, r - DaysBeforeMonth(y, m))

\* dt - timedelta(days = n)
MinusDays(dt, n) == FromOrdinal(ToOrdinal(dt) - n)

\* a <= b on datetimes
DateLeq(a, b) == ToOrdinal(a) <= ToOrdinal(b)

(***************************************************************************)
(* QueryParser: the entity catalog                                         *)
(***************************************************************************)
\* lines 34-59
\*   U+4E2D U+56FD -> CHN
\*   china -> CHN
\*   U+4E2D U+534E U+4EBA U+6C11 U+5171 U+548C U+56FD -> CHN
\*   U+7F8E U+56FD -> USA
\*   united states -> USA
\*   america -> USA
\*   us -> USA
\*   U+5370 U+5EA6 -> IND
\*   india -> IND
\*   U+65E5 U+672C -> JPN
\*   japan -> JPN
\*   U+5FB7 U+56FD -> DEU
\*   germany -> DEU
\*   U+6CD5 U+56FD -> FRA
\*   france -> FRA
\*   U+82F1 U+56FD -> GBR
\*   uk -> GBR
\*   united kingdom -> GBR
\*   U+52A0 U+62FF U+5927 -> CAN
\*   canada -> CAN
\*   U+6FB3 U+5927 U+5229 U+4E9A -> AUS
\*   australia -> AUS
\*   U+65B0 U+52A0 U+5761 -> SGP
\*   singapore -> SGP
country_map ==
    << [name |-> <<20013, 22269>>, code |-> "CHN"],
       [name |-> <<99, 104, 105, 110, 97>>, code |-> "CHN"],
       [name |-> <<20013, 21326, 20154, 27665, 20849, 21644, 22269>>, code |-> "CHN"],
       [name |-> <<32654, 22269>>, code |-> "USA"],
       [name |-> <<117, 110, 105, 116, 101, 100, 32, 115, 116, 97, 116, 101, 115>>, code |-> "USA"],
       [name |-> <<97, 109, 101, 114, 105, 99, 97>>, code |-> "USA"],
       [name |-> <<117, 115>>, code |-> "USA"],
       [name |-> <<21360, 24230>>, code |-> "IND"],
       [name |-> <<105, 110, 100, 105, 97>>, code |-> "IND"],
       [name |-> <<26085, 26412>>, code |-> "JPN"],
       [name |-> <<106, 97, 112, 97, 110>>, code |-> "JPN"],
       [name |-> <<24503, 22269>>, code |-> "DEU"],
       [name |-> <<103, 101, 114, 109, 97, 110, 121>>, code |-> "DEU"],
       [name |-> <<27861, 22269>>, code |-> "FRA"],
       [name |-> <<102, 114, 97, 110, 99, 101>>, code |-> "FRA"],
       [name |-> <<33521, 22269>>, code |-> "GBR"],
       [name |-> <<117, 107>>, code |-> "GBR"],
       [name |-> <<117, 110, 105, 116, 101, 100, 32, 107, 105, 110, 103, 100, 111, 109>>, code |-> "GBR"],
       [name |-> <<21152, 25343, 22823>>, code |-> "CAN"],
       [name |-> <<99, 97, 110, 97, 100, 97>>, code |-> "CAN"],
       [name |-> <<28595, 22823, 21033, 20122>>, code |-> "AUS"],
       [name |-> <<97, 117, 115, 116, 114, 97, 108, 105, 97>>, code |-> "AUS"],
       [name |-> <<26032, 21152, 22369>>, code |-> "SGP"],
       [name |-> <<115, 105, 110, 103, 97, 112, 111, 114, 101>>, code |-> "SGP"] >>

\* lines 62-80
\*   gdp -> NY.GDP.MKTP.CD
\*   U+4EBA U+5747 gdp -> NY.GDP.PCAP.CD
\*   U+4EBA U+5747 U+56FD U+5185 U+751F U+4EA7 U+603B U+503C -> NY.GDP.PCAP.CD
\*   U+4EBA U+5747 U+56FD U+6C11 U+751F U+4EA7 U+603B U+503C -> NY.GDP.PCAP.CD
\*   U+901A U+80C0 U+7387 -> FP.CPI.TOTL.ZG
\*   cpi -> FP.CPI.TOTL.ZG
\*   U+6D88 U+8D39 U+8005 U+7269 U+4EF7 U+6307 U+6570 -> FP.CPI.TOTL.ZG
\*   U+5931 U+4E1A U+7387 -> SL.UEM.TOTL.ZS
\*   unemployment -> SL.UEM.TOTL.ZS
\*   U+51FA U+53E3 -> NE.EXP.GNFS.ZS
\*   exports -> NE.EXP.GNFS.ZS
\*   U+57FA U+51C6 U+5229 U+7387 -> FR.INR.RINR
\*   interest rate -> FR.INR.RINR
\*   U+4EBA U+53E3 -> SP.POP.TOTL
\*   population -> SP.POP.TOTL
\*   U+8D1F U+503A U+7387 -> GC.DOD.TOTL.GD.ZS
\*   debt to gdp -> GC.DOD.TOTL.GD.ZS
indicator_map ==
    << [name |-> <<103, 100, 112>>, code |-> "NY.GDP.MKTP.CD"],
       [name |-> <<20154, 22343, 103, 100, 112>>, code |-> "NY.GDP.PCAP.CD"],
       [name |-> <<20154, 22343, 22269, 20869, 29983, 20135, 24635, 20540>>, code |-> "NY.GDP.PCAP.CD"],
       [name |-> <<20154, 22343, 22269, 27665, 29983, 20135, 24635, 20540>>, code |-> "NY.GDP.PCAP.CD"],
       [name |-> <<36890, 32960, 29575>>, code |-> "FP.CPI.TOTL.ZG"],
       [name |-> <<99, 112, 105>>, code |-> "FP.CPI.TOTL.ZG"],
       [name |-> <<28040, 36153, 32773, 29289, 20215, 25351, 25968>>, code |-> "FP.CPI.TOTL.ZG"],
       [name |-> <<22833, 19994, 29575>>, code |-> "SL.UEM.TOTL.ZS"],
       [name |-> <<117, 110, 101, 109, 112, 108, 111, 121, 109, 101, 110, 116>>, code |-> "SL.UEM.TOTL.ZS"],
       [name |-> <<20986, 21475>>, code |-> "NE.EXP.GNFS.ZS"],
       [name |-> <<101, 120, 112, 111, 114, 116, 115>>, code |-> "NE.EXP.GNFS.ZS"],
       [name |-> <<22522, 20934, 21033, 29575>>, code |-> "FR.INR.RINR"],
       [name |-> <<105, 110, 116, 101, 114, 101, 115, 116, 32, 114, 97, 116, 101>>, code |-> "FR.INR.RINR"],
       [name |-> <<20154, 21475>>, code |-> "SP.POP.TOTL"],
       [name |-> <<112, 111, 112, 117, 108, 97, 116, 105, 111, 110>>, code |-> "SP.POP.TOTL"],
       [name |-> <<36127, 20538, 29575>>, code |-> "GC.DOD.TOTL.GD.ZS"],
       [name |-> <<100, 101, 98, 116, 32, 116, 111, 32, 103, 100, 112>>, code |-> "GC.DOD.TOTL.GD.ZS"] >>

(***************************************************************************)
(* QueryParser.extract_countries / extract_indicators                      *)
(***************************************************************************)
\* The loop `for name, code in map.items(): if name.lower() in query.lower()
\* and code not in acc: acc.append(code)`, from entry i on.
\* ql is query.lower(), which every iteration computes anew from the same query.
RECURSIVE ScanCatalog(_, _, _, _)
ScanCatalog(map, ql, i, acc) ==
    IF i > Len(map) THEN acc
    ELSE LET e == map[i]
             hit == Contains(Lower(e.name), ql)
                    /\ ~(\E k \in 1..Len(acc) : acc[k] = e.code)
         IN  ScanCatalog(map, ql, i + 1, IF hit THEN Append(acc, e.code) ELSE acc)

\* What the NER pipeline does when it is consulted: "unavailable" (the model
\* failed to load, ner_pipeline is None), "raises" (the call throws), or the
\* words of the location entities it returns ("japan", "an", "zz"; the last
\* outcome is the two entities "an", "japan").
NerWords == { <<106, 97, 112, 97, 110>>, <<97, 110>>, <<122, 122>> }
NerOutcomes ==
    { [kind |-> "unavailable", words |-> <<>>], [kind |-> "raises", words |-> <<>>] }
    \cup { [kind |-> "entities", words |-> w] :
             w \in {<<>>} \cup { <<a>> : a \in NerWords }
                   \cup { <<<<97, 110>>, <<106, 97, 112, 97, 110>>>> } }

\* The inner loop of the NER branch: the entity text is looked up INSIDE each
\* catalog name (entity_text in country_name.lower()).
RECURSIVE ScanEntity(_, _, _)
ScanEntity(word, i, acc) ==
    IF i > Len(country_map) THEN acc
    ELSE LET e == country_map[i]
             hit == Contains(Lower(word), Lower(e.name))
                    /\ ~(\E k \in 1..Len(acc) : acc[k] = e.code)
         IN  ScanEntity(word, i + 1, IF hit THEN Append(acc, e.code) ELSE acc)

RECURSIVE ScanEntities(_, _, _)
ScanEntities(words, i, acc) ==
    IF i > Len(words) THEN acc
    ELSE ScanEntities(words, i + 1, ScanEntity(words[i], 1, acc))

\* extract_countries as it would be if the text were not lower-cased.
extract_countries_case_sensitive(q, ner) ==
    LET countries == ScanCatalog(country_map, q, 1, <<>>)
    IN  IF ner.kind = "entities" /\ countries = <<>>
        THEN ScanEntities(ner.words, 1, <<>>)
        ELSE countries

extract_countries(q, ner) ==
    LET countries == ScanCatalog(country_map, Lower(q), 1, <<>>)
    IN  IF ner.kind = "entities" /\ countries = <<>>
        THEN ScanEntities(ner.words, 1, <<>>)
        ELSE countries

extract_indicators(q) == ScanCatalog(indicator_map, Lower(q), 1, <<>>)

(***************************************************************************)
(* QueryParser.extract_time_period                                         *)
(***************************************************************************)
\* re.findall(r"\b(19|20)\d{2}\b", query): the pattern has one capturing
\* group, so findall returns what the GROUP matched ("19" or "20") for every
\* match, in order; int() of it is 19 or 20.
YearMatchAt(q, i) ==
    /\ i + 3 <= Len(q)
    /\ WordBoundary(q, i - 1)
    /\ \/ q[i] = 49 /\ q[i + 1] = 57
       \/ q[i] = 50 /\ q[i + 1] = 48
    /\ IsDigit(q[i + 2]) /\ IsDigit(q[i + 3])
    /\ WordBoundary(q, i + 3)

RECURSIVE FindYears(_, _)
FindYears(q, i) ==
    IF i > Len(q) THEN <<>>
    ELSE IF YearMatchAt(q, i)
         THEN <<(q[i] - 48) * 10 + (q[i + 1] - 48)>> \o FindYears(q, i + 4)
         ELSE FindYears(q, i + 1)

\* years.sort(): only the ends are read afterwards.
SeqMin(s) == CHOOSE x \in {s[i] : i \in 1..Len(s)} : \A j \in 1..Len(s) : x <= s[j]
SeqMax(s) == CHOOSE x \in {s[i] : i \in 1..Len(s)} : \A j \in 1..Len(s) : x >= s[j]

extract_time_period(q, current_year) ==
    LET years == FindYears(q, 1)
        ql == Lower(q)
    IN  IF Len(years) = 1
        THEN IF Contains(<<20197, 26469>>, q) \/ Contains(<<115, 105, 110, 99, 101>>, ql)
             THEN [start_date |-> datetime(years[1], 1, 1),
                   end_date |-> datetime(current_year, 12, 31)]
             ELSE [start_date |-> datetime(years[1], 1, 1),
                   end_date |-> datetime(years[1], 12, 31)]
        ELSE IF Len(years) >= 2
        THEN [start_date |-> datetime(SeqMin(years), 1, 1),
              end_date |-> datetime(SeqMax(years), 12, 31)]
        ELSE IF Contains(<<36807, 21435, 21313, 24180>>, q) \/ Contains(<<108, 97, 115, 116, 32, 100, 101, 99, 97, 100, 101>>, ql)
        THEN [start_date |-> datetime(current_year - 10, 1, 1),
              end_date |-> datetime(current_year, 12, 31)]
        ELSE IF \/ Contains(<<36807, 21435, 20116, 24180>>, q)
                \/ Contains(<<108, 97, 115, 116, 32, 102, 105, 118, 101, 32, 121, 101, 97, 114, 115>>, ql)
                \/ Contains(<<112, 97, 115, 116, 32, 53, 32, 121, 101, 97, 114, 115>>, ql)
        THEN [start_date |-> datetime(current_year - 5, 1, 1),
              end_date |-> datetime(current_year, 12, 31)]
        ELSE IF Contains(<<21435, 24180>>, q) \/ Contains(<<108, 97, 115, 116, 32, 121, 101, 97, 114>>, ql)
        THEN [start_date |-> datetime(current_year - 1, 1, 1),
              end_date |-> datetime(current_year - 1, 12, 31)]
        ELSE [start_date |-> datetime(current_year - 10, 1, 1),
              end_date |-> datetime(current_year, 12, 31)]

(***************************************************************************)
(* QueryParser.detect_comparison / detect_trend_analysis /                 *)
(* detect_visualization_type                                               *)
(***************************************************************************)
\* lines 177-190
\*   U+6BD4 U+8F83 | compare | U+5BF9 U+6BD4 | versus | vs | U+76F8 U+6BD4 | compared to | comparison | U+4E0E | U+548C | U+53CA | U+6BD4
comparison_terms ==
    << <<27604, 36739>>,
       <<99, 111, 109, 112, 97, 114, 101>>,
       <<23545, 27604>>,
       <<118, 101, 114, 115, 117, 115>>,
       <<118, 115>>,
       <<30456, 27604>>,
       <<99, 111, 109, 112, 97, 114, 101, 100, 32, 116, 111>>,
       <<99, 111, 109, 112, 97, 114, 105, 115, 111, 110>>,
       <<19982>>,
       <<21644>>,
       <<21450>>,
       <<27604>> >>

\* lines 201-214
\*   U+8D8B U+52BF | trend | U+53D8 U+5316 | change | U+589E U+957F | growth | U+6F14 U+53D8 | evolution | U+53D1 U+5C55 | development | U+5386 U+53F2 | history
trend_terms ==
    << <<36235, 21183>>,
       <<116, 114, 101, 110, 100>>,
       <<21464, 21270>>,
       <<99, 104, 97, 110, 103, 101>>,
       <<22686, 38271>>,
       <<103, 114, 111, 119, 116, 104>>,
       <<28436, 21464>>,
       <<101, 118, 111, 108, 117, 116, 105, 111, 110>>,
       <<21457, 23637>>,
       <<100, 101, 118, 101, 108, 111, 112, 109, 101, 110, 116>>,
       <<21382, 21490>>,
       <<104, 105, 115, 116, 111, 114, 121>> >>

\* detect_comparison as it would be if it also required several countries in
\* the text, as its comment suggests.
detect_comparison_several_countries(q) ==
    LET ql == Lower(q)
    IN  /\ \E i \in 1..Len(comparison_terms) : Contains(comparison_terms[i], ql)
        /\ Len(ScanCatalog(country_map, ql, 1, <<>>)) > 1

detect_comparison(q) ==
    LET ql == Lower(q)
    IN  \E i \in 1..Len(comparison_terms) : Contains(comparison_terms[i], ql)

detect_trend_analysis(q) ==
    LET ql == Lower(q)
    IN  \E i \in 1..Len(trend_terms) : Contains(trend_terms[i], ql)

\* detect_visualization_type as it would be with the pie test before the bar
\* test.
detect_visualization_type_pie_first(q) ==
    LET ql == Lower(q)
    IN  IF Contains(<<39292, 22270>>, q) \/ Contains(<<112, 105, 101, 32, 99, 104, 97, 114, 116>>, ql)
        THEN "pie"
        ELSE IF \/ Contains(<<26609, 29366, 22270>>, q)
                \/ Contains(<<98, 97, 114, 32, 99, 104, 97, 114, 116>>, ql)
                \/ Contains(<<26609, 22270>>, q)
        THEN "bar"
        ELSE IF Contains(<<25955, 28857, 22270>>, q) \/ Contains(<<115, 99, 97, 116, 116, 101, 114>>, ql)
        THEN "scatter"
        ELSE IF Contains(<<28909, 21147, 22270>>, q) \/ Contains(<<104, 101, 97, 116, 32, 109, 97, 112>>, ql)
        THEN "heatmap"
        ELSE "line"

detect_visualization_type(q) ==
    LET ql == Lower(q)
    IN  IF \/ Contains(<<26609, 29366, 22270>>, q)
           \/ Contains(<<98, 97, 114, 32, 99, 104, 97, 114, 116>>, ql)
           \/ Contains(<<26609, 22270>>, q)
        THEN "bar"
        ELSE IF Contains(<<39292, 22270>>, q) \/ Contains(<<112, 105, 101, 32, 99, 104, 97, 114, 116>>, ql)
        THEN "pie"
        ELSE IF Contains(<<25955, 28857, 22270>>, q) \/ Contains(<<115, 99, 97, 116, 116, 101, 114>>, ql)
        THEN "scatter"
        ELSE IF Contains(<<28909, 21147, 22270>>, q) \/ Contains(<<104, 101, 97, 116, 32, 109, 97, 112>>, ql)
        THEN "heatmap"
        ELSE "line"

(***************************************************************************)
(* QueryParser.parse_query                                                 *)
(***************************************************************************)
DefaultCountries == <<"CHN", "USA">>
DefaultIndicators == <<"NY.GDP.MKTP.CD">>

\* The argument of parse_query: a str, or an object that is no str (None),
\* on which the first query.lower() raises AttributeError.
StrQuery(chars) == [is_str |-> TRUE, chars |-> chars]
NotAStr == [is_str |-> FALSE, chars |-> <<>>]

\* FallbackQuery as it would be if the handler dropped the reason and asked
\* for no trend analysis.
FallbackQuerySilent(q, t) ==
    [countries |-> DefaultCountries,
     indicators |-> DefaultIndicators,
     start_date |-> MinusDays(t, 365 * 10),
     end_date |-> t,
     is_comparison |-> FALSE,
     is_trend |-> FALSE,
     visualization_type |-> "line",
     original_query |-> q]

\* The except branch: the basic default query, with the reason under "error".
FallbackQuery(q, t) ==
    [countries |-> DefaultCountries,
     indicators |-> DefaultIndicators,
     start_date |-> MinusDays(t, 365 * 10),
     end_date |-> t,
     is_comparison |-> FALSE,
     is_trend |-> TRUE,
     visualization_type |-> "line",
     original_query |-> q,
     error |-> "AttributeError"]

\* parse_query as it would be if it took the window of every text from
\* today's date, as the except branch does.
parse_query_window_from_today(q, t, ner) ==
    IF ~q.is_str THEN FallbackQuery(q, t)
    ELSE LET countries == extract_countries(q.chars, ner)
             indicators == extract_indicators(q.chars)
         IN  [countries |-> IF countries = <<>> THEN DefaultCountries ELSE countries,
              indicators |-> IF indicators = <<>> THEN DefaultIndicators ELSE indicators,
              start_date |-> MinusDays(t, 365 * 10),
              end_date |-> t,
              is_comparison |-> detect_comparison(q.chars),
              is_trend |-> detect_trend_analysis(q.chars),
              visualization_type |-> detect_visualization_type(q.chars),
              original_query |-> q]

\* parse_query as it would be without the two default substitutions.
parse_query_no_defaults(q, t, ner) ==
    IF ~q.is_str THEN FallbackQuery(q, t)
    ELSE LET period == extract_time_period(q.chars, t.year)
         IN  [countries |-> extract_countries(q.chars, ner),
              indicators |-> extract_indicators(q.chars),
              start_date |-> period.start_date,
              end_date |-> period.end_date,
              is_comparison |-> detect_comparison(q.chars),
              is_trend |-> detect_trend_analysis(q.chars),
              visualization_type |-> detect_visualization_type(q.chars),
              original_query |-> q]

parse_query(q, t, ner) ==
    IF ~q.is_str THEN FallbackQuery(q, t)
    ELSE LET countries == extract_countries(q.chars, ner)
             indicators == extract_indicators(q.chars)
             period == extract_time_period(q.chars, t.year)
         IN  [countries |-> IF countries = <<>> THEN DefaultCountries ELSE countries,
              indicators |-> IF indicators = <<>> THEN DefaultIndicators ELSE indicators,
              start_date |-> period.start_date,
              end_date |-> period.end_date,
              is_comparison |-> detect_comparison(q.chars),
              is_trend |-> detect_trend_analysis(q.chars),
              visualization_type |-> detect_visualization_type(q.chars),
              original_query |-> q]

(***************************************************************************)
(* Parser runs: inputs and the action                                      *)
(***************************************************************************)
\* "bi jiao zhong guo he mei guo 2010-2020 nian de GDP qu shi": compare the GDP
\* trend of China and the US, 2010-2020 (the example of the specification).
ExampleCompare == <<27604, 36739, 20013, 22269, 21644, 32654, 22269, 50, 48, 49, 48, 45, 50, 48, 50, 48, 24180, 30340, 71, 68, 80, 36235, 21183>>
\* "asdkj"
ExampleGibberish == <<97, 115, 100, 107, 106>>

ExampleTexts == { ExampleCompare, ExampleGibberish }

\* "since ", "2010 ", "1999-", "2020", "China ", "US", "gdp", "vs ", "trend",
\* and the ideograph nian (year), which is a word character.
Fragments ==
    { <<115, 105, 110, 99, 101, 32>>, <<50, 48, 49, 48, 32>>, <<49, 57, 57, 57, 45>>, <<50, 48, 50, 48>>, <<67, 104, 105, 110, 97, 32>>,
      <<85, 83>>, <<103, 100, 112>>, <<118, 115, 32>>, <<116, 114, 101, 110, 100>>, <<24180>> }

RECURSIVE Concats(_)
Concats(n) ==
    IF n = 0 THEN { <<>> }
    ELSE LET shorter == Concats(n - 1)
         IN  shorter \cup { s \o f : s \in shorter, f \in Fragments }

Texts == ExampleTexts \cup Concats(MaxWords)

Queries == { StrQuery(t) : t \in Texts } \cup { NotAStr }

\* datetime.now(): an ordinary day, a 31 December and a 29 February.
Nows == { datetime(2026, 11, 4), datetime(2026, 12, 31), datetime(2024, 2, 29) }

IdleAnalysis ==
    /\ pc = "idle"
    /\ data = <<>>
    /\ query_params = NoValue
    /\ analysis_result = NoValue
    /\ report = NoValue

ParserInit ==
    /\ ppc = "ready"
    /\ query \in Queries
    /\ now \in Nows
    /\ parsed = NoValue
    /\ IdleAnalysis

\* One call of parse_query; the NER model's behaviour is not the parser's choice.
ParseQuery ==
    /\ ppc = "ready"
    /\ \E ner \in NerOutcomes : parsed' = parse_query(query, now, ner)
    /\ ppc' = "parsed"
    /\ UNCHANGED <<query, now, analysisVars>>

ParserNext == ParseQuery

ParserSpec == ParserInit /\ [][ParserNext]_vars

(***************************************************************************)
(* Parser runs on cue texts: relative time phrases, comparison and trend   *)
(* terms, chart keywords                                                   *)
(***************************************************************************)
\* Texts are concatenations of at most MaxCues cue fragments.
MaxCues == 2

\* "last decade ", "past five years ", "last five years ", "Last Year ",
\* qu nian (last year), "compare ", he (and), "Growth ", "bar chart ",
\* "Pie Chart ", "scatter ", re li tu (heat map).
CueFragments ==
    { <<108, 97, 115, 116, 32, 100, 101, 99, 97, 100, 101, 32>>,
      <<112, 97, 115, 116, 32, 102, 105, 118, 101, 32, 121, 101, 97, 114, 115, 32>>,
      <<108, 97, 115, 116, 32, 102, 105, 118, 101, 32, 121, 101, 97, 114, 115, 32>>,
      <<76, 97, 115, 116, 32, 89, 101, 97, 114, 32>>,
      <<21435, 24180>>,
      <<99, 111, 109, 112, 97, 114, 101, 32>>,
      <<21644>>,
      <<71, 114, 111, 119, 116, 104, 32>>,
      <<98, 97, 114, 32, 99, 104, 97, 114, 116, 32>>,
      <<80, 105, 101, 32, 67, 104, 97, 114, 116, 32>>,
      <<115, 99, 97, 116, 116, 101, 114, 32>>,
      <<28909, 21147, 22270>> }

\* "past 5 years", guo qu shi nian (last decade), guo qu wu nian (past five
\* years), zhu zhuang tu and zhu tu (bar chart), bing tu (pie chart),
\* san dian tu (scatter), "heat map", "VS", "trend".
ExampleCues ==
    { ExampleGibberish,
      <<112, 97, 115, 116, 32, 53, 32, 121, 101, 97, 114, 115>>,
      <<36807, 21435, 21313, 24180>>,
      <<36807, 21435, 20116, 24180>>,
      <<26609, 29366, 22270>>,
      <<26609, 22270>>,
      <<39292, 22270>>,
      <<25955, 28857, 22270>>,
      <<104, 101, 97, 116, 32, 109, 97, 112>>,
      <<86, 83>>,
      <<116, 114, 101, 110, 100>> }

RECURSIVE CueConcats(_)
CueConcats(n) ==
    IF n = 0 THEN { <<>> }
    ELSE LET shorter == CueConcats(n - 1)
         IN  shorter \cup { s \o f : s \in shorter, f \in CueFragments }

CueTexts == ExampleCues \cup CueConcats(MaxCues)

CueInit ==
    /\ ppc = "ready"
    /\ query \in { StrQuery(t) : t \in CueTexts } \cup { NotAStr }
    /\ now \in Nows
    /\ parsed = NoValue
    /\ IdleAnalysis

CueSpec == CueInit /\ [][ParserNext]_vars

(***************************************************************************)
(* Floating-point values as exact rationals                                *)
(***************************************************************************)
RECURSIVE GCD(_, _)
GCD(a, b) == IF b = 0 THEN a ELSE GCD(b, a % b)

Abs(x) == IF x < 0 THEN -x ELSE x
Sign(x) == IF x < 0 THEN -1 ELSE IF x > 0 THEN 1 ELSE 0

\* n / d in lowest terms with d > 0; d = 0 gives inf, -inf or NaN.
Rat(n, d) ==
    IF d = 0 THEN [n |-> Sign(n), d |-> 0]
    ELSE LET g == GCD(Abs(n), Abs(d))
         IN  [n |-> Sign(d) * (n \div g), d |-> Abs(d) \div g]

Inf == [n |-> 1, d |-> 0]
NegInf == [n |-> -1, d |-> 0]
NaN == [n |-> 0, d |-> 0]
IsFinite(r) == r.d # 0
IsNaN(r) == r.d = 0 /\ r.n = 0

RInt(k) == [n |-> k, d |-> 1]
RAdd(a, b) == Rat(a.n * b.d + b.n * a.d, a.d * b.d)
RSub(a, b) == Rat(a.n * b.d - b.n * a.d, a.d * b.d)
RMul(a, b) == Rat(a.n * b.n, a.d * b.d)
\* a / b for b # 0 (every division of the code modelled is guarded)
RDiv(a, b) == Rat(a.n * b.d, a.d * b.n)
RAbs(a) == [n |-> Abs(a.n), d |-> a.d]

\* a < b as IEEE compares: false whenever a NaN is involved.
RLess(a, b) ==
    IF IsNaN(a) \/ IsNaN(b) THEN FALSE
    ELSE IF a.d = 0 THEN a.n < 0 /\ ~(b.d = 0 /\ b.n < 0)
    ELSE IF b.d = 0 THEN b.n > 0
    ELSE a.n * b.d < b.n * a.d

(***************************************************************************)
(* DataAnalyzer: the DataFrame                                             *)
(***************************************************************************)
\* Names are str values: "CHN", "USA", "JPN"; "GDP" and "CPI".
NameCHN == <<67, 72, 78>>
NameUSA == <<85, 83, 65>>
NameJPN == <<74, 80, 78>>
NameGDP == <<71, 68, 80>>
NameCPI == <<67, 80, 73>>

\* a < b on str values (by code point, a proper prefix first)
RECURSIVE StrLess(_, _)
StrLess(a, b) ==
    IF b = <<>> THEN FALSE
    ELSE IF a = <<>> THEN TRUE
    ELSE IF a[1] # b[1] THEN a[1] < b[1]
    ELSE StrLess(Tail(a), Tail(b))

\* _convert_to_dataframe: one row per point, series after series.
RECURSIVE ConvertToDataframe(_)
ConvertToDataframe(d) ==
    IF d = <<>> THEN <<>>
    ELSE LET s == d[Len(d)]
         IN  ConvertToDataframe(SubSeq(d, 1, Len(d) - 1))
             \o [i \in 1..Len(s.data) |->
                    [country |-> s.country, indicator |-> s.indicator,
                     date |-> s.data[i].date, value |-> s.data[i].value]]

\* Series.unique(): the distinct values in order of first appearance.
RECURSIVE Unique(_)
Unique(s) ==
    IF s = <<>> THEN <<>>
    ELSE LET u == Unique(SubSeq(s, 1, Len(s) - 1))
             x == s[Len(s)]
         IN  IF \E i \in 1..Len(u) : u[i] = x THEN u ELSE Append(u, x)

Column(df, f) == [i \in 1..Len(df) |-> df[i][f]]

\* df[(df["country"] == c) & (df["indicator"] == ind)]
Rows(df, c, ind) == SelectSeq(df, LAMBDA r : r.country = c /\ r.indicator = ind)

\* A stable sort of s by the strict order Before: an element's place is one
\* more than the number of elements that come before it or tie with it from
\* an earlier position.  The sequence s and the places are bound as values,
\* so that each is computed once.
SortBy(s0, Before(_, _)) ==
    CHOOSE sorted \in
        UNION { { [r \in 1..Len(s) |-> s[CHOOSE i \in 1..Len(s) : place[i] = r]] :
                      place \in { [i \in 1..Len(s) |->
                                     1 + Cardinality({ j \in 1..Len(s) :
                                                         \/ Before(s[j], s[i])
                                                         \/ ~Before(s[i], s[j]) /\ j < i })] } } :
                s \in {s0} } : TRUE

\* sort_values("date") left out: the rows in the order they came.
StoredOrder(rows) == rows

\* sort_values("date")
SortByDate(rows) == SortBy(rows, LAMBDA a, b : ToOrdinal(a.date) < ToOrdinal(b.date))

\* The groups of df.groupby(["country", "indicator"]): the distinct pairs in
\* ascending order of (country, indicator).
PairBefore(a, b) ==
    \/ StrLess(a.country, b.country)
    \/ a.country = b.country /\ StrLess(a.indicator, b.indicator)

GroupKeys(df) ==
    SortBy(Unique([i \in 1..Len(df) |->
                      [country |-> df[i].country, indicator |-> df[i].indicator]]),
           PairBefore)

\* f"{country}_{indicator}"
Key(country, indicator) == country \o <<95>> \o indicator

\* dict[key] = value: a new key goes last, an old key keeps its place.
Put(dict, key, value) ==
    IF \E i \in 1..Len(dict) : dict[i].key = key
    THEN [i \in 1..Len(dict) |->
             IF dict[i].key = key THEN [key |-> key, value |-> value] ELSE dict[i]]
    ELSE Append(dict, [key |-> key, value |-> value])

(***************************************************************************)
(* DataAnalyzer._calculate_statistics                                      *)
(***************************************************************************)
RECURSIVE Sum(_)
Sum(s) == IF s = <<>> THEN 0 ELSE s[1] + Sum(Tail(s))

SortAscending(s) == SortBy(s, LAMBDA a, b : a < b)

\* Mean as it would be with the divisor of the sample deviation, n - 1.
MeanOverCountLessOne(vals) == Rat(Sum(vals), Len(vals) - 1)

Mean(vals) == Rat(Sum(vals), Len(vals))

Median(vals) ==
    LET s == SortAscending(vals)
        n == Len(s)
    IN  IF n % 2 = 1 THEN RInt(s[(n + 1) \div 2])
        ELSE Rat(s[n \div 2] + s[n \div 2 + 1], 2)

\* Series.std() is the sample standard deviation (ddof = 1): the square root
\* of Sum((v - mean)^2) / (n - 1), and NaN for a single value.  The model keeps
\* the variance it is the root of.
Std(vals) ==
    LET n == Len(vals)
        sq == [i \in 1..n |-> (n * vals[i] - Sum(vals)) * (n * vals[i] - Sum(vals))]
    IN  IF n < 2 THEN [nan |-> TRUE, variance |-> NaN]
        ELSE [nan |-> FALSE, variance |-> Rat(Sum(sq), n * n * (n - 1))]

\* IsGdpIndicator as it would be without lower().
IsGdpIndicatorCaseSensitive(indicator) == Contains(<<103, 100, 112>>, indicator)

\* indicator.lower().find("gdp") >= 0
IsGdpIndicator(indicator) == Contains(<<103, 100, 112>>, Lower(indicator))

\* The "cagr" entry, (last / first) ** (1 / years) - 1 in percent, kept as the
\* quotient and the day count it is computed from.  The values are
\* numpy.float64, so a negative quotient under a fractional power is NaN.
Cagr(first, last, days) ==
    [nan |-> last < 0, ratio |-> Rat(last, first), days |-> days]

GroupStatistics(k, group) ==
    LET vals == Column(group, "value")
        base == [country |-> k.country,
                 indicator |-> k.indicator,
                 mean |-> Mean(vals),
                 median |-> Median(vals),
                 min |-> SeqMin(vals),
                 max |-> SeqMax(vals),
                 std |-> Std(vals),
                 count |-> Len(group)]
        sorted == SortByDate(group)
        n == Len(sorted)
        first == sorted[1].value
        last == sorted[n].value
        previous == sorted[n - 1].value
        days == ToOrdinal(sorted[n].date) - ToOrdinal(sorted[1].date)
        withCagr ==
            IF n > 1 /\ IsGdpIndicator(k.indicator) /\ days > 0 /\ first > 0
            THEN [cagr |-> Cagr(first, last, days)] @@ base
            ELSE base
    IN  IF n > 1 /\ previous # 0
        THEN [recent_change_pct |-> RMul(Rat(last - previous, previous), RInt(100))]
             @@ withCagr
        ELSE withCagr

RECURSIVE StatisticsFrom(_, _, _)
StatisticsFrom(df, keys, stats) ==
    IF keys = <<>> THEN stats
    ELSE LET k == keys[1]
         IN  StatisticsFrom(df, Tail(keys),
                 Put(stats, Key(k.country, k.indicator),
                     GroupStatistics(k, Rows(df, k.country, k.indicator))))

calculate_statistics(df) == StatisticsFrom(df, GroupKeys(df), <<>>)

(***************************************************************************)
(* DataAnalyzer._analyze_trends                                            *)
(***************************************************************************)
\* The slope of np.polyfit(arange(n), y, 1): the least-squares line through
\* (0, y[1]) .. (n - 1, y[n]).
Slope(y) ==
    LET n == Len(y)
        sx == Sum([i \in 1..n |-> i - 1])
        sxx == Sum([i \in 1..n |-> (i - 1) * (i - 1)])
        sxy == Sum([i \in 1..n |-> (i - 1) * y[i]])
    IN  Rat(n * sxy - sx * Sum(y), n * sxx - sx * sx)

Intercept(y) ==
    LET n == Len(y)
        sx == Sum([i \in 1..n |-> i - 1])
    IN  RDiv(RSub(RInt(Sum(y)), RMul(Slope(y), RInt(sx))), RInt(n))

\* np.polyfit solves the least-squares problem in float64 by an SVD of the
\* scaled Vandermonde matrix (LAPACK gelsd).  Where the exact slope is not 0
\* the computed slope has its sign.  Where the exact slope is 0 (a constant
\* or a symmetric series) the computed slope is the rounding residue of that
\* solve, of the order of 1e-16 times the values: negative, zero or positive
\* as the LAPACK build and the data have it.  Only for y = 0 throughout is
\* every intermediate 0 and the slope exactly 0.
PolyfitResidues == {-1, 0, 1}

\* The computed slope: the exact slope in n / d, and in "residue" the sign of
\* what rounding leaves of an exactly-zero slope.
PolyfitSlope(y, residue) ==
    LET exact == Slope(y)
        all_zero == \A i \in 1..Len(y) : y[i] = 0
    IN  [n |-> exact.n, d |-> exact.d,
         residue |-> IF exact.n = 0 /\ ~all_zero THEN residue ELSE 0]

\* "rising" is shang sheng, "falling" xia jiang, "flat" wen ding.
Direction(slope) ==
    IF slope.n > 0 \/ (slope.n = 0 /\ slope.residue > 0) THEN "rising"
    ELSE IF slope.n < 0 \/ (slope.n = 0 /\ slope.residue < 0) THEN "falling"
    ELSE "flat"

RECURSIVE RSum(_)
RSum(s) == IF s = <<>> THEN RInt(0) ELSE RAdd(s[1], RSum(Tail(s)))

RSquared(y) ==
    LET n == Len(y)
        m == Mean(y)
        a == Slope(y)
        b == Intercept(y)
        dev == [i \in 1..n |-> RSub(RInt(y[i]), m)]
        res == [i \in 1..n |-> RSub(RInt(y[i]), RAdd(RMul(a, RInt(i - 1)), b))]
        ss_tot == RSum([i \in 1..n |-> RMul(dev[i], dev[i])])
        ss_res == RSum([i \in 1..n |-> RMul(res[i], res[i])])
    IN  IF ss_tot.n # 0 THEN RSub(RInt(1), RDiv(ss_res, ss_tot)) ELSE RInt(0)

\* np.where(np.diff(np.signbit(np.diff(y))))[0]: the 0-based i at which the
\* differences y[i+1] - y[i] and y[i+2] - y[i+1] differ in sign bit.
SignChanges(y) ==
    LET neg == [i \in 1..(Len(y) - 1) |-> y[i + 1] - y[i] < 0]
    IN  SelectSeq([i \in 1..(Len(y) - 2) |-> i - 1], LAMBDA i : neg[i + 1] # neg[i + 2])

\* _analyze_trends as it would be without sort_values("date").
GroupTrendUnsorted(k, group, residue) ==
    LET y == Column(group, "value")
        n == Len(y)
        changes == SignChanges(y)
        base == [country |-> k.country,
                 indicator |-> k.indicator,
                 overall_trend |-> Direction(PolyfitSlope(y, residue)),
                 trend_strength |-> RSquared(y),
                 recent_trend |-> IF n >= 6
                                  THEN Direction(PolyfitSlope(SubSeq(y, n - 5, n), residue))
                                  ELSE "insufficient",
                 slope |-> PolyfitSlope(y, residue)]
    IN  IF changes # <<>>
        THEN [inflection_points |->
                 [i \in 1..Len(changes) |-> group[changes[i] + 2].date]] @@ base
        ELSE base

\* _analyze_trends as it would be if the recent trend were fitted to all the
\* points of a group of six or more.
GroupTrendRecentOverAll(k, group, residue) ==
    LET sorted == SortByDate(group)
        y == Column(sorted, "value")
        n == Len(y)
        changes == SignChanges(y)
        base == [country |-> k.country,
                 indicator |-> k.indicator,
                 overall_trend |-> Direction(PolyfitSlope(y, residue)),
                 trend_strength |-> RSquared(y),
                 recent_trend |-> IF n >= 6
                                  THEN Direction(PolyfitSlope(y, residue))
                                  ELSE "insufficient",
                 slope |-> PolyfitSlope(y, residue)]
    IN  IF changes # <<>>
        THEN [inflection_points |->
                 [i \in 1..Len(changes) |-> sorted[changes[i] + 2].date]] @@ base
        ELSE base

\* "insufficient" is shu ju bu zu.
GroupTrend(k, group, residue) ==
    LET sorted == SortByDate(group)
        y == Column(sorted, "value")
        n == Len(y)
        changes == SignChanges(y)
        base == [country |-> k.country,
                 indicator |-> k.indicator,
                 overall_trend |-> Direction(PolyfitSlope(y, residue)),
                 trend_strength |-> RSquared(y),
                 recent_trend |-> IF n >= 6
                                  THEN Direction(PolyfitSlope(SubSeq(y, n - 5, n), residue))
                                  ELSE "insufficient",
                 slope |-> PolyfitSlope(y, residue)]
    IN  IF changes # <<>>
        THEN [inflection_points |->
                 [i \in 1..Len(changes) |-> sorted[changes[i] + 2].date]] @@ base
        ELSE base

\* _analyze_trends as it would be if two points were enough for a trend.
RECURSIVE TrendsFromTwoPoints(_, _, _, _)
TrendsFromTwoPoints(df, keys, trends, residue) ==
    IF keys = <<>> THEN trends
    ELSE LET k == keys[1]
             group == Rows(df, k.country, k.indicator)
         IN  TrendsFromTwoPoints(df, Tail(keys),
                 IF Len(group) >= 2
                 THEN Put(trends, Key(k.country, k.indicator), GroupTrend(k, group, residue))
                 ELSE trends,
                 residue)

RECURSIVE TrendsFrom(_, _, _, _)
TrendsFrom(df, keys, trends, residue) ==
    IF keys = <<>> THEN trends
    ELSE LET k == keys[1]
             group == Rows(df, k.country, k.indicator)
         IN  TrendsFrom(df, Tail(keys),
                 IF Len(group) >= 3
                 THEN Put(trends, Key(k.country, k.indicator), GroupTrend(k, group, residue))
                 ELSE trends,
                 residue)

analyze_trends(df, residue) == TrendsFrom(df, GroupKeys(df), <<>>, residue)

(***************************************************************************)
(* DataAnalyzer._compare_entities                                          *)
(***************************************************************************)
\* The empty dict {}.
EmptyDict == [empty |-> TRUE]

\* The entries of latest_values before sorting: for each country, in order of
\* first appearance, the value and date of its latest row.
RECURSIVE LatestValues(_, _, _)
LatestValues(df, countries, indicator) ==
    IF countries = <<>> THEN <<>>
    ELSE LET c == countries[1]
             rows == SortByDate(Rows(df, c, indicator))
             rest == LatestValues(df, Tail(countries), indicator)
         IN  IF rows = <<>> THEN rest
             ELSE <<[country |-> c,
                     value |-> rows[Len(rows)].value,
                     date |-> rows[Len(rows)].date]>> \o rest

\* The sort as it would be without reverse = True.
SortByValueAscending(items) == SortBy(items, LAMBDA a, b : a.value < b.value)

\* list.sort(key = value, reverse = True): descending and stable.
SortByValueDescending(items) == SortBy(items, LAMBDA a, b : a.value > b.value)

DifferenceFromTop(value, top_value) ==
    IF top_value # 0
    THEN RMul(Rat(value - top_value, top_value), RInt(100))
    ELSE RInt(0)

Rankings(latest_values) ==
    LET sorted == SortByValueDescending(latest_values)
    IN  [i \in 1..Len(sorted) |->
            [country |-> sorted[i].country,
             value |-> sorted[i].value,
             date |-> sorted[i].date,
             rank |-> i,
             difference_from_top |-> DifferenceFromTop(sorted[i].value, sorted[1].value)]]

\* The entries of indicator_trends before sorting.
RECURSIVE IndicatorTrends(_, _, _)
IndicatorTrends(df, country, indicators) ==
    IF indicators = <<>> THEN <<>>
    ELSE LET ind == indicators[1]
             rows == SortByDate(Rows(df, country, ind))
             first_value == rows[1].value
             last_value == rows[Len(rows)].value
             rest == IndicatorTrends(df, country, Tail(indicators))
         IN  IF Len(rows) > 1
             THEN <<[indicator |-> ind,
                     first_value |-> first_value,
                     last_value |-> last_value,
                     change_pct |->
                         IF first_value # 0
                         THEN RMul(Rat(last_value - first_value, first_value), RInt(100))
                         ELSE IF last_value > 0 THEN Inf ELSE NegInf]>> \o rest
             ELSE rest

SortByChangeDescending(items) ==
    SortBy(items, LAMBDA a, b : RLess(b.change_pct, a.change_pct))

compare_entities(df) ==
    LET unique_countries == Unique(Column(df, "country"))
        unique_indicators == Unique(Column(df, "indicator"))
    IN  IF Len(unique_countries) > 1 /\ Len(unique_indicators) = 1
        THEN [type |-> "cross_country",
              indicator |-> unique_indicators[1],
              rankings |-> Rankings(LatestValues(df, unique_countries,
                                                 unique_indicators[1]))]
        ELSE IF Len(unique_indicators) > 1 /\ Len(unique_countries) = 1
        THEN [type |-> "cross_indicator",
              country |-> unique_countries[1],
              indicator_changes |->
                  SortByChangeDescending(IndicatorTrends(df, unique_countries[1],
                                                         unique_indicators))]
        ELSE EmptyDict

(***************************************************************************)
(* DataAnalyzer._generate_visualization                                    *)
(***************************************************************************)
\* A trace of the figure: go.Scatter with its mode and name, or go.Bar, with
\* the x and y values it draws.
Trace(kind, mode, name, x, y) ==
    [kind |-> kind, mode |-> mode, name |-> name, x |-> x, y |-> y]

RECURSIVE CountryTraces(_, _, _, _)
CountryTraces(df, countries, indicator, mode) ==
    IF countries = <<>> THEN <<>>
    ELSE LET rows == Rows(df, countries[1], indicator)
             rest == CountryTraces(df, Tail(countries), indicator, mode)
         IN  IF rows = <<>> THEN rest
             ELSE <<Trace("scatter", mode, countries[1],
                          Column(rows, "date"), Column(rows, "value"))>> \o rest

RECURSIVE IndicatorTraces(_, _, _)
IndicatorTraces(df, country, indicators) ==
    IF indicators = <<>> THEN <<>>
    ELSE LET rows == Rows(df, country, indicators[1])
             rest == IndicatorTraces(df, country, Tail(indicators))
         IN  IF rows = <<>> THEN rest
             ELSE <<Trace("scatter", "lines+markers", indicators[1],
                          Column(rows, "date"), Column(rows, "value"))>> \o rest

RECURSIVE PairTraces(_, _, _)
PairTraces(df, countries, indicators) ==
    IF countries = <<>> THEN <<>>
    ELSE [i \in 1..Len(indicators) |->
             Trace("scatter", "lines+markers",
                   countries[1] \o <<32, 45, 32>> \o indicators[i],
                   Column(Rows(df, countries[1], indicators[i]), "date"),
                   Column(Rows(df, countries[1], indicators[i]), "value"))]
         \o PairTraces(df, Tail(countries), indicators)

generate_visualization(df0, qp) ==
    LET vis_type == qp.visualization_type
        unique_countries == Unique(Column(df0, "country"))
        unique_indicators == Unique(Column(df0, "indicator"))
        df == SortByDate(df0)
    IN  IF Len(unique_indicators) = 1 /\ Len(unique_countries) > 0
        THEN [vis_type |-> vis_type,
              layout |-> "countries_overlaid",
              traces |->
                  IF vis_type = "bar"
                  THEN LET latest == LatestValues(df, unique_countries, unique_indicators[1])
                       IN  <<Trace("bar", "none", <<>>, Column(latest, "country"),
                                   Column(latest, "value"))>>
                  ELSE CountryTraces(df, unique_countries, unique_indicators[1],
                                     IF vis_type = "scatter" THEN "markers"
                                     ELSE "lines+markers")]
        ELSE IF Len(unique_countries) = 1 /\ Len(unique_indicators) > 0
        THEN [vis_type |-> vis_type,
              layout |-> "indicator_subplots",
              traces |-> IndicatorTraces(df, unique_countries[1], unique_indicators)]
        ELSE [vis_type |-> vis_type,
              layout |-> "single_figure",
              traces |-> SelectSeq(PairTraces(df, unique_countries, unique_indicators),
                                   LAMBDA t : t.y # <<>>)]

(***************************************************************************)
(* DataAnalyzer.analyze_data                                               *)
(***************************************************************************)
\* analyze_data as it would be if the comparison did not look at the
\* is_comparison flag.
analyze_data_always_compare(d, qp, residue) ==
    IF d = <<>> THEN [error |-> "no_data"]
    ELSE LET df == ConvertToDataframe(d)
         IN  IF df = <<>> THEN [error |-> "convert_failed"]
             ELSE [statistics |-> calculate_statistics(df),
                   visualization |-> generate_visualization(df, qp),
                   trend_analysis |-> IF qp.is_trend THEN analyze_trends(df, residue) ELSE <<>>,
                   comparison |->
                       IF Len(Unique(Column(df, "country"))) > 1
                       THEN compare_entities(df)
                       ELSE EmptyDict]

\* analyze_data as it would be without the test for an empty list, which
\* leaves the empty input to the test for an empty DataFrame.
analyze_data_no_empty_check(d, qp, residue) ==
    LET df == ConvertToDataframe(d)
    IN  IF df = <<>> THEN [error |-> "convert_failed"]
        ELSE [statistics |-> calculate_statistics(df),
              visualization |-> generate_visualization(df, qp),
              trend_analysis |-> IF qp.is_trend THEN analyze_trends(df, residue) ELSE <<>>,
              comparison |->
                  IF qp.is_comparison /\ Len(Unique(Column(df, "country"))) > 1
                  THEN compare_entities(df)
                  ELSE EmptyDict]

\* "no_data" is the message mei you shu ju ke gong fen xi, "convert_failed"
\* the message shu ju zhuan huan shi bai.
analyze_data(d, qp, residue) ==
    IF d = <<>> THEN [error |-> "no_data"]
    ELSE LET df == ConvertToDataframe(d)
         IN  IF df = <<>> THEN [error |-> "convert_failed"]
             ELSE [statistics |-> calculate_statistics(df),
                   visualization |-> generate_visualization(df, qp),
                   trend_analysis |-> IF qp.is_trend THEN analyze_trends(df, residue) ELSE <<>>,
                   comparison |->
                       IF qp.is_comparison /\ Len(Unique(Column(df, "country"))) > 1
                       THEN compare_entities(df)
                       ELSE EmptyDict]

(***************************************************************************)
(* ReportGenerator                                                         *)
(***************************************************************************)
\* dict.get(key, default)
Get(dict, key, default) == IF key \in DOMAIN dict THEN dict[key] ELSE default

\* round(x) to the nearest integer, a tie to the even one.
RoundHalfEven(r) ==
    LET fl == IF r.n >= 0 THEN r.n \div r.d ELSE -((-r.n + r.d - 1) \div r.d)
        twice == 2 * (r.n - fl * r.d)
    IN  IF twice < r.d THEN fl
        ELSE IF twice > r.d THEN fl + 1
        ELSE IF fl % 2 = 0 THEN fl ELSE fl + 1

\* f"{x:.2f}": the hundredths of a finite value, and the words "inf" and
\* "nan" for the others.
Fmt2(r) ==
    IF IsNaN(r) THEN [text |-> "nan"]
    ELSE IF ~IsFinite(r) THEN [text |-> IF r.n > 0 THEN "inf" ELSE "-inf"]
    ELSE [text |-> "number", hundredths |-> RoundHalfEven(RMul(r, RInt(100)))]

\* The year-range part of the title and of the intro.  A query's dates are
\* datetime objects, which are never falsy.
TimePhrase(q) ==
    IF "start_date" \in DOMAIN q /\ "end_date" \in DOMAIN q
    THEN [kind |-> "range", from |-> q.start_date.year, to |-> q.end_date.year]
    ELSE IF "start_date" \in DOMAIN q
    THEN [kind |-> "since", from |-> q.start_date.year]
    ELSE IF "end_date" \in DOMAIN q
    THEN [kind |-> "until", to |-> q.end_date.year]
    ELSE [kind |-> "none"]

\* "global" is quan qiu, "macro_indicators" is hong guan jing ji zhi biao; the
\* title ends in fen xi bao gao (analysis report).
generate_title(q) ==
    LET countries == Get(q, "countries", <<>>)
        indicators == Get(q, "indicators", <<>>)
    IN  [kind |-> "analysis_report",
         country_str |-> IF countries = <<>> THEN <<"global">> ELSE countries,
         indicator_str |-> IF indicators = <<>> THEN <<"macro_indicators">> ELSE indicators,
         time_str |-> TimePhrase(q)]

\* The values of a dict in insertion order.
Values(dict) == [i \in 1..Len(dict) |-> dict[i].value]

\* The intro sentence, ben bao gao fen xi le ... de biao xian: the countries of
\* the query, the indicator names of the statistics (or the generic jing ji
\* zhi biao shu ju), and the period.
Intro(result, q) ==
    LET countries == Get(q, "countries", <<>>)
        indicators == Get(q, "indicators", <<>>)
        stats == Values(Get(result, "statistics", <<>>))
        names == Unique(Column(stats, "indicator"))
    IN  [kind |-> "intro",
         countries |-> countries,
         indicators |-> IF indicators = <<>> THEN <<>>
                        ELSE IF names # <<>> THEN names
                        ELSE <<"economic_indicator_data">>,
         period |-> TimePhrase(q)]

\* The latest value of a group, read from analysis_result["data"].
LatestOf(result, country, indicator) ==
    IF "data" \in DOMAIN result /\ result.data # <<>>
    THEN LET series == SelectSeq(result.data,
                           LAMBDA s : s.country = country /\ s.indicator = indicator
                                      /\ s.data # <<>>)
         IN  IF series = <<>> THEN [found |-> FALSE]
             ELSE [found |-> TRUE,
                   value |-> LET pts == SortByDate(series[Len(series)].data)
                             IN  pts[Len(pts)].value]
    ELSE [found |-> FALSE]

RECURSIVE StatsClauses(_, _)
StatsClauses(result, stats) ==
    IF stats = <<>> THEN <<>>
    ELSE LET v == stats[1]
             latest == LatestOf(result, v.country, v.indicator)
         IN  <<[kind |-> "mean", country |-> v.country, indicator |-> v.indicator,
                value |-> Fmt2(v.mean)]>>
             \o (IF latest.found
                 THEN <<[kind |-> "latest", country |-> v.country,
                         indicator |-> v.indicator, value |-> Fmt2(RInt(latest.value))]>>
                 ELSE <<>>)
             \o StatsClauses(result, Tail(stats))

RECURSIVE TrendClauses(_)
TrendClauses(trends) ==
    IF trends = <<>> THEN <<>>
    ELSE LET v == trends[1]
         IN  <<[kind |-> "overall", country |-> v.country, indicator |-> v.indicator,
                trend |-> v.overall_trend]>>
             \o (IF v.recent_trend # "insufficient"
                 THEN <<[kind |-> "recent", country |-> v.country,
                         indicator |-> v.indicator, trend |-> v.recent_trend]>>
                 ELSE <<>>)
             \o TrendClauses(Tail(trends))

\* The comparison sentence of the summary, or no sentence.
ComparisonSummary(comparison) ==
    IF comparison = EmptyDict THEN <<>>
    ELSE IF comparison.type = "cross_country"
    THEN LET rankings == comparison.rankings
         IN  IF rankings = <<>> THEN <<>>
             ELSE <<[kind |-> "best_country",
                     indicator |-> comparison.indicator,
                     top_country |-> rankings[1].country,
                     bottom_country |-> IF Len(rankings) > 1
                                        THEN <<rankings[Len(rankings)].country>>
                                        ELSE <<>>]>>
    ELSE LET changes == comparison.indicator_changes
         IN  IF changes = <<>> THEN <<>>
             ELSE <<[kind |-> IF RLess(RInt(0), changes[1].change_pct)
                              THEN "fastest_growing" ELSE "largest_decline",
                     country |-> comparison.country,
                     indicator |-> changes[1].indicator,
                     change |-> Fmt2(RAbs(changes[1].change_pct))]>>

\* _generate_summary as it would be if the statistics and trend sentences were
\* appended whether or not they have a clause.
generate_summary_with_placeholders(result, q) ==
    <<Intro(result, q),
      [kind |-> "statistics",
       clauses |-> StatsClauses(result, Values(Get(result, "statistics", <<>>)))],
      [kind |-> "trends",
       clauses |-> TrendClauses(Values(Get(result, "trend_analysis", <<>>)))]>>
    \o ComparisonSummary(Get(result, "comparison", EmptyDict))

\* summary_parts, which " ".join turns into the summary.
generate_summary(result, q) ==
    LET stats_summary == StatsClauses(result, Values(Get(result, "statistics", <<>>)))
        trend_summary == TrendClauses(Values(Get(result, "trend_analysis", <<>>)))
    IN  <<Intro(result, q)>>
        \o (IF stats_summary # <<>>
            THEN <<[kind |-> "statistics", clauses |-> stats_summary]>> ELSE <<>>)
        \o (IF trend_summary # <<>>
            THEN <<[kind |-> "trends", clauses |-> trend_summary]>> ELSE <<>>)
        \o ComparisonSummary(Get(result, "comparison", EmptyDict))

\* The threshold of a significant recent change, in percent.
SignificantChangePct == 10

RECURSIVE StatsFindings(_)
StatsFindings(stats) ==
    IF stats = <<>> THEN <<>>
    ELSE LET v == stats[1]
             pct == v.recent_change_pct
         IN  <<[kind |-> "range", country |-> v.country, indicator |-> v.indicator,
                max |-> Fmt2(RInt(v.max)), min |-> Fmt2(RInt(v.min))]>>
             \o (IF "recent_change_pct" \in DOMAIN v
                    /\ RLess(RInt(SignificantChangePct), RAbs(pct))
                 THEN <<[kind |-> "recent_change", country |-> v.country,
                         indicator |-> v.indicator,
                         direction |-> IF RLess(RInt(0), pct)
                                       THEN "increase" ELSE "decrease",
                         change |-> Fmt2(RAbs(pct))]>>
                 ELSE <<>>)
             \o StatsFindings(Tail(stats))

RECURSIVE TrendFindings(_)
TrendFindings(trends) ==
    IF trends = <<>> THEN <<>>
    ELSE LET v == trends[1]
         IN  (IF "inflection_points" \in DOMAIN v
              THEN <<[kind |-> "inflection", country |-> v.country,
                      indicator |-> v.indicator, dates |-> v.inflection_points]>>
              ELSE <<>>)
             \o (IF RLess(Rat(7, 10), v.trend_strength)
                 THEN <<[kind |-> "strong_trend", country |-> v.country,
                         indicator |-> v.indicator, trend |-> v.overall_trend,
                         strength |-> Fmt2(v.trend_strength)]>>
                 ELSE <<>>)
             \o (IF v.recent_trend # "insufficient" /\ v.recent_trend # v.overall_trend
                 THEN <<[kind |-> "trend_turn", country |-> v.country,
                         indicator |-> v.indicator, overall |-> v.overall_trend,
                         recent |-> v.recent_trend]>>
                 ELSE <<>>)
             \o TrendFindings(Tail(trends))

\* The lead of the first-ranked country over the second, in percent of the
\* second's value.
LeadPct(top_value, second_value) ==
    IF second_value # 0
    THEN RMul(Rat(top_value - second_value, second_value), RInt(100))
    ELSE Inf

ComparisonFindings(comparison) ==
    IF comparison = EmptyDict THEN <<>>
    ELSE IF comparison.type = "cross_country"
    THEN LET rankings == comparison.rankings
         IN  IF Len(rankings) >= 2
             THEN <<[kind |-> "lead",
                     indicator |-> comparison.indicator,
                     top_country |-> rankings[1].country,
                     second_country |-> rankings[2].country,
                     lead |-> Fmt2(RAbs(LeadPct(rankings[1].value, rankings[2].value)))]>>
             ELSE <<>>
    ELSE LET changes == comparison.indicator_changes
         IN  IF Len(changes) >= 2
             THEN <<[kind |-> "best_and_worst",
                     country |-> comparison.country,
                     best_indicator |-> changes[1].indicator,
                     worst_indicator |-> changes[Len(changes)].indicator]>>
             ELSE <<>>

extract_key_findings(result) ==
    StatsFindings(Values(Get(result, "statistics", <<>>)))
    \o TrendFindings(Values(Get(result, "trend_analysis", <<>>)))
    \o ComparisonFindings(Get(result, "comparison", EmptyDict))

\* One table per series of analysis_result["data"], then the statistics table.
prepare_data_tables(result) ==
    LET series == SelectSeq(Get(result, "data", <<>>), LAMBDA s : s.data # <<>>)
        stats == Values(Get(result, "statistics", <<>>))
    IN  [i \in 1..Len(series) |->
            [title |-> "series", country |-> series[i].country,
             indicator |-> series[i].indicator, rows |-> series[i].data]]
        \o (IF stats # <<>>
            THEN <<[title |-> "statistics_summary",
                    rows |-> [i \in 1..Len(stats) |->
                                 [country |-> stats[i].country,
                                  indicator |-> stats[i].indicator,
                                  mean |-> stats[i].mean,
                                  median |-> stats[i].median,
                                  min |-> stats[i].min,
                                  max |-> stats[i].max]]]>>
            ELSE <<>>)

generate_report(result, q, t) ==
    [title |-> generate_title(q),
     summary |-> generate_summary(result, q),
     key_findings |-> extract_key_findings(result),
     data_tables |-> prepare_data_tables(result),
     charts |-> Get(result, "visualization", EmptyDict),
     timestamp |-> t,
     query_details |-> q]

(***************************************************************************)
(* Analysis runs: inputs and the actions                                   *)
(***************************************************************************)
Point(y, v) == [date |-> datetime(y, 1, 1), value |-> v]

\* The point lists a series arrives with.  The store returns the rows of a
\* pair in no promised order; within one series the dates are distinct.
SeriesShapes ==
    { <<Point(2020, 100)>>,
      <<Point(2020, 90), Point(2019, 100)>>,
      <<Point(2019, 0), Point(2020, 80)>>,
      <<Point(2020, 0)>>,
      <<Point(2019, 10), Point(2020, -20), Point(2018, 10)>> }

\* The (country, indicator) pairs the store has data for, in the order
\* _fetch_data visits them: country-major, countries and indicators in
\* catalog order.
PairOrder ==
    << [country |-> NameCHN, indicator |-> NameGDP],
       [country |-> NameCHN, indicator |-> NameCPI],
       [country |-> NameUSA, indicator |-> NameGDP],
       [country |-> NameJPN, indicator |-> NameGDP] >>

PairIndex(s) ==
    CHOOSE i \in 1..Len(PairOrder) :
        PairOrder[i].country = s.country /\ PairOrder[i].indicator = s.indicator

\* The query dicts handed to the analyzer and the report generator: what
\* parse_query returns for a text without entities or years, with every
\* combination of the intent flags and a line or bar chart.
QueryParams ==
    { [countries |-> DefaultCountries,
       indicators |-> DefaultIndicators,
       start_date |-> datetime(2016, 1, 1),
       end_date |-> datetime(2026, 12, 31),
       is_comparison |-> c,
       is_trend |-> t,
       visualization_type |-> v,
       original_query |-> StrQuery(ExampleGibberish)] :
      c \in BOOLEAN, t \in BOOLEAN, v \in {"line", "bar"} }

\* datetime.now() when the report is stamped.
ReportClock == { datetime(2026, 11, 4), datetime(2026, 11, 5) }

IdleParser ==
    /\ ppc = "idle"
    /\ query = NotAStr
    /\ now = datetime(2026, 11, 4)
    /\ parsed = NoValue

Init ==
    /\ IdleParser
    /\ pc = "input"
    /\ data = <<>>
    /\ query_params = NoValue
    /\ analysis_result = NoValue
    /\ report = NoValue

\* result_data.append(...) in _fetch_data: the next pair that has data points
\* in the store contributes its series.
AppendSeries ==
    /\ pc = "input"
    /\ Len(data) < MaxSeries
    /\ \E i \in 1..Len(PairOrder), pts \in SeriesShapes :
          /\ data # <<>> => i > PairIndex(data[Len(data)])
          /\ data' = Append(data, [country |-> PairOrder[i].country,
                                   indicator |-> PairOrder[i].indicator,
                                   data |-> pts])
    /\ UNCHANGED <<pc, query_params, analysis_result, report, parserVars>>

\* analyzer.analyze_data(result["data"], result["query"])
AnalyzeData ==
    /\ pc = "input"
    /\ \E qp \in QueryParams :
       \E residue \in IF qp.is_trend THEN PolyfitResidues ELSE {0} :
          /\ query_params' = qp
          /\ analysis_result' = analyze_data(data, qp, residue)
    /\ pc' = "analyzed"
    /\ UNCHANGED <<data, report, parserVars>>

\* report_generator.generate_report(analysis_result, result["query"])
GenerateReport ==
    /\ pc = "analyzed"
    /\ \E t \in ReportClock : report' = generate_report(analysis_result, query_params, t)
    /\ pc' = "reported"
    /\ UNCHANGED <<data, query_params, analysis_result, parserVars>>

Next == AppendSeries \/ AnalyzeData \/ GenerateReport

Spec == Init /\ [][Next]_vars

(***************************************************************************)
(* Analysis runs on sample series: statistics and trends                   *)
(***************************************************************************)
\* A sample run is handed at most MaxSamples series.
MaxSamples == 2

\* Point lists as the store may return them, in no promised order: a single
\* point; 100, 110, 80 over 2018-2020; three and six points of one value;
\* a zero first value; two rows of one date; zeros throughout; seven points
\* that fall overall and rise over the last six.
SampleShapes ==
    { <<Point(2020, 100)>>,
      <<Point(2020, 80), Point(2018, 100), Point(2019, 110)>>,
      <<Point(2018, 50), Point(2019, 50), Point(2020, 50)>>,
      <<Point(2015, 7), Point(2016, 7), Point(2017, 7), Point(2018, 7), Point(2019, 7), Point(2020, 7)>>,
      <<Point(2019, 0), Point(2020, 80)>>,
      <<Point(2020, 50), Point(2020, 50)>>,
      <<Point(2018, 0), Point(2019, 0), Point(2020, 0)>>,
      <<Point(2019, 4), Point(2014, 9), Point(2015, 1), Point(2016, 3), Point(2017, 2), Point(2018, 4),
        Point(2020, 6)>> }

\* The pairs the sample store has data for: CHN GDP, CHN CPI, USA GDP.
SamplePairs == SubSeq(PairOrder, 1, 3)

\* result_data.append(...) in _fetch_data, on the sample store.
FetchSample ==
    /\ pc = "input"
    /\ Len(data) < MaxSamples
    /\ \E i \in 1..Len(SamplePairs), pts \in SampleShapes :
          /\ data # <<>> => i > PairIndex(data[Len(data)])
          /\ data' = Append(data, [country |-> SamplePairs[i].country,
                                   indicator |-> SamplePairs[i].indicator,
                                   data |-> pts])
    /\ UNCHANGED <<pc, query_params, analysis_result, report, parserVars>>

StatsNext == FetchSample \/ AnalyzeData

StatsSpec == Init /\ [][StatsNext]_vars

\* The sample runs with their report: the endpoint hands the analysis of the
\* sample series to the report generator.
SampleReportNext == FetchSample \/ AnalyzeData \/ GenerateReport

SampleReportSpec == Init /\ [][SampleReportNext]_vars

(***************************************************************************)
(* Analysis runs on series with names of any text                          *)
(***************************************************************************)
\* The name columns of the countries and indicators tables are free text
\* (models.py).  "Korea" with "North_GDP", "Korea_North" with "GDP", and
\* "Korea" with "GDP": three distinct pairs, in the order of the fetch.
NamedPairs ==
    << [country |-> <<75, 111, 114, 101, 97>>,
        indicator |-> <<78, 111, 114, 116, 104, 95, 71, 68, 80>>],
       [country |-> <<75, 111, 114, 101, 97, 95, 78, 111, 114, 116, 104>>,
        indicator |-> NameGDP],
       [country |-> <<75, 111, 114, 101, 97>>, indicator |-> NameGDP] >>

NamedShapes ==
    { <<Point(2020, 100)>>,
      <<Point(2019, 0), Point(2020, 80)>>,
      <<Point(2020, 80), Point(2018, 100), Point(2019, 110)>> }

\* result_data.append(...) in _fetch_data, on a store with these names.
FetchNamed ==
    /\ pc = "input"
    /\ Len(data) < MaxSamples
    /\ \E i \in 1..Len(NamedPairs), pts \in NamedShapes :
          /\ \A s \in 1..Len(data) :
                 \E j \in 1..(i - 1) :
                     /\ NamedPairs[j].country = data[s].country
                     /\ NamedPairs[j].indicator = data[s].indicator
          /\ data' = Append(data, [country |-> NamedPairs[i].country,
                                   indicator |-> NamedPairs[i].indicator,
                                   data |-> pts])
    /\ UNCHANGED <<pc, query_params, analysis_result, report, parserVars>>

NamedNext == FetchNamed \/ AnalyzeData

NamedSpec == Init /\ [][NamedNext]_vars

(***************************************************************************)
(* Analysis runs on series supplied in every order                         *)
(***************************************************************************)
\* The orders in which the store may return the points pts.
Orders(pts) ==
    { [i \in 1..Len(pts) |-> pts[p[i]]] :
          p \in { q \in [1..Len(pts) -> 1..Len(pts)] :
                      \A i, j \in 1..Len(pts) : i # j => q[i] # q[j] } }

\* The points 100, 110, 80 of 2018-2020 in each of their six orders, and six
\* points of 2015-2020 by descending date and in a mixed order.  The dates of
\* a series are distinct.
PermutedShapes ==
    Orders(<<Point(2018, 100), Point(2019, 110), Point(2020, 80)>>)
    \cup { <<Point(2020, 6), Point(2019, 4), Point(2018, 5), Point(2017, 2), Point(2016, 3),
             Point(2015, 1)>>,
           <<Point(2017, 2), Point(2020, 6), Point(2015, 1), Point(2018, 5), Point(2016, 3),
             Point(2019, 4)>> }

\* result_data.append(...) in _fetch_data, the rows of a pair in some order.
FetchPermuted ==
    /\ pc = "input"
    /\ Len(data) < MaxSamples
    /\ \E i \in 1..Len(SamplePairs), pts \in PermutedShapes :
          /\ data # <<>> => i > PairIndex(data[Len(data)])
          /\ data' = Append(data, [country |-> SamplePairs[i].country,
                                   indicator |-> SamplePairs[i].indicator,
                                   data |-> pts])
    /\ UNCHANGED <<pc, query_params, analysis_result, report, parserVars>>

PermutedNext == FetchPermuted \/ AnalyzeData

PermutedSpec == Init /\ [][PermutedNext]_vars

(***************************************************************************)
(* crud and QueryProcessor._fetch_data over a store                        *)
(***************************************************************************)
\* The rows of the store.  India is in the parser's catalog and not in the
\* countries table; population is in the catalog and not in the indicators
\* table; USA has no CPI rows; the other pairs have rows in some years only.
StoreCountries ==
    << [code |-> "CHN", name |-> NameCHN],
       [code |-> "USA", name |-> NameUSA],
       [code |-> "JPN", name |-> NameJPN] >>

StoreIndicators ==
    << [code |-> "NY.GDP.MKTP.CD", name |-> NameGDP],
       [code |-> "FP.CPI.TOTL.ZG", name |-> NameCPI] >>

StoreDataPoints ==
    << [country |-> "CHN", indicator |-> "NY.GDP.MKTP.CD", date |-> datetime(2020, 1, 1), value |-> 80],
       [country |-> "CHN", indicator |-> "NY.GDP.MKTP.CD", date |-> datetime(2018, 1, 1), value |-> 100],
       [country |-> "USA", indicator |-> "NY.GDP.MKTP.CD", date |-> datetime(2025, 1, 1), value |-> 95],
       [country |-> "CHN", indicator |-> "NY.GDP.MKTP.CD", date |-> datetime(2019, 1, 1), value |-> 110],
       [country |-> "USA", indicator |-> "NY.GDP.MKTP.CD", date |-> datetime(2020, 1, 1), value |-> 90],
       [country |-> "CHN", indicator |-> "FP.CPI.TOTL.ZG", date |-> datetime(2020, 1, 1), value |-> 2],
       [country |-> "CHN", indicator |-> "FP.CPI.TOTL.ZG", date |-> datetime(2021, 1, 1), value |-> 3],
       [country |-> "JPN", indicator |-> "NY.GDP.MKTP.CD", date |-> datetime(2015, 1, 1), value |-> 80] >>

\* crud.get_country_by_code / get_indicator_by_code: the rows with the code
\* (.first() takes the first; none is None).
get_country_by_code(code) == SelectSeq(StoreCountries, LAMBDA r : r.code = code)
get_indicator_by_code(code) == SelectSeq(StoreIndicators, LAMBDA r : r.code = code)

\* crud.get_data_points: the rows of the pair dated within [start, end], in
\* the order the store holds them.
get_data_points(country, indicator, start_date, end_date) ==
    SelectSeq(StoreDataPoints,
              LAMBDA r : /\ r.country = country.code
                         /\ r.indicator = indicator.code
                         /\ DateLeq(start_date, r.date)
                         /\ DateLeq(r.date, end_date))

\* The inner loop of _fetch_data, from indicator j on, for a country found.
RECURSIVE FetchIndicators(_, _, _, _)
FetchIndicators(country, parsed_query, j, result_data) ==
    IF j > Len(parsed_query.indicators) THEN result_data
    ELSE LET found == get_indicator_by_code(parsed_query.indicators[j])
             data_points ==
                 get_data_points(country, found[1],
                                 parsed_query.start_date, parsed_query.end_date)
         IN  IF found = <<>>
             THEN FetchIndicators(country, parsed_query, j + 1, result_data)
             ELSE IF data_points = <<>>
             THEN FetchIndicators(country, parsed_query, j + 1, result_data)
             ELSE FetchIndicators(country, parsed_query, j + 1,
                      Append(result_data,
                             [country |-> country.name,
                              indicator |-> found[1].name,
                              data |-> [k \in 1..Len(data_points) |->
                                           [date |-> data_points[k].date,
                                            value |-> data_points[k].value]]]))

\* The outer loop of _fetch_data, from country i on.
RECURSIVE FetchCountries(_, _, _)
FetchCountries(parsed_query, i, result_data) ==
    IF i > Len(parsed_query.countries) THEN result_data
    ELSE LET found == get_country_by_code(parsed_query.countries[i])
         IN  IF found = <<>>
             THEN FetchCountries(parsed_query, i + 1, result_data)
             ELSE FetchCountries(parsed_query, i + 1,
                      FetchIndicators(found[1], parsed_query, 1, result_data))

\* _fetch_data as it would be if a country missing from the store ended the
\* loop (return in place of continue).
fetch_data_returns_at_missing_country(parsed_query) ==
    LET missing == { i \in 1..Len(parsed_query.countries) :
                         get_country_by_code(parsed_query.countries[i]) = <<>> }
        stop == IF missing = {} THEN Len(parsed_query.countries) + 1
                ELSE CHOOSE i \in missing : \A j \in missing : i <= j
    IN  FetchCountries([parsed_query EXCEPT !.countries = SubSeq(@, 1, stop - 1)], 1, <<>>)

fetch_data(parsed_query) == FetchCountries(parsed_query, 1, <<>>)

\* process_natural_language_query: the parsed query and the data (the
\* message is no part of the analysis or of the report).
process_natural_language_query(q, t, ner) ==
    LET parsed_query == parse_query(q, t, ner)
    IN  [query |-> parsed_query, data |-> fetch_data(parsed_query)]

(***************************************************************************)
(* Requests to the endpoint natural_language_query                         *)
(***************************************************************************)
\* A request's text names at most MaxMentions countries and at most
\* MaxMentions indicators.
MaxMentions == 2

\* "China ", "US ", "japan ", "india "
CountryTerms ==
    << <<67, 104, 105, 110, 97, 32>>, <<85, 83, 32>>, <<106, 97, 112, 97, 110, 32>>,
       <<105, 110, 100, 105, 97, 32>> >>

\* "gdp ", "cpi ", "population "
IndicatorTerms ==
    << <<103, 100, 112, 32>>, <<99, 112, 105, 32>>,
       <<112, 111, 112, 117, 108, 97, 116, 105, 111, 110, 32>> >>

\* Nothing, "last year ", "compare trend "
RequestCues ==
    { <<>>, <<108, 97, 115, 116, 32, 121, 101, 97, 114, 32>>,
      <<99, 111, 109, 112, 97, 114, 101, 32, 116, 114, 101, 110, 100, 32>> }

RECURSIVE JoinTerms(_, _, _)
JoinTerms(terms, i, chosen) ==
    IF i > Len(terms) THEN <<>>
    ELSE (IF i \in chosen THEN terms[i] ELSE <<>>) \o JoinTerms(terms, i + 1, chosen)

Mentions(terms) == { S \in SUBSET (1..Len(terms)) : Cardinality(S) <= MaxMentions }

RequestTexts ==
    { JoinTerms(CountryTerms, 1, C) \o JoinTerms(IndicatorTerms, 1, I) \o cue :
          C \in Mentions(CountryTerms), I \in Mentions(IndicatorTerms), cue \in RequestCues }

RequestInit ==
    /\ ppc = "ready"
    /\ query \in { StrQuery(t) : t \in RequestTexts }
    /\ now \in Nows
    /\ parsed = NoValue
    /\ IdleAnalysis

\* natural_language_query, the whole handler: parse and fetch, analyze,
\* generate the report.  The first request is served at the clock reading now;
\* the same text is sent once again at a later reading.  The recognizer is a
\* fixed model, so it answers the text as it did before.
NaturalLanguageQuery ==
    /\ \/ pc = "idle" /\ now' = now
       \/ pc = "reported" /\ now' \in Nows /\ ~DateLeq(now', now)
    /\ \E ner \in NerOutcomes :
       \E result \in { process_natural_language_query(query, now', ner) } :
          /\ pc = "reported" => result.query.countries = parsed.countries
          /\ \E residue \in IF result.query.is_trend THEN PolyfitResidues ELSE {0} :
             \E analysis \in { analyze_data(result.data, result.query, residue) } :
                /\ analysis_result' = analysis
                /\ report' = generate_report(analysis, result.query, now')
          /\ parsed' = result.query
          /\ query_params' = result.query
          /\ data' = result.data
    /\ ppc' = "parsed"
    /\ pc' = IF pc = "idle" THEN "reported" ELSE "reported_again"
    /\ UNCHANGED query

RequestNext == NaturalLanguageQuery

RequestSpec == RequestInit /\ [][RequestNext]_vars

(***************************************************************************)
(* Concurrent requests to the endpoint                                     *)
(***************************************************************************)
\* Two requests are in flight at the endpoint.  Each request has its
\* own QueryProcessor (with its own QueryParser), DataAnalyzer and
\* ReportGenerator and its own local variables; in this specification the
\* variables query, parsed, data, query_params, analysis_result, report and pc
\* hold one value per request.  The store does not change; the clock is read
\* by parse_query and by generate_report and moves on between steps.
Requests == {1, 2}

\* "China gdp cpi ", "China US gdp compare trend ", "US gdp last year "
ConcurrentTexts ==
    { JoinTerms(CountryTerms, 1, {1}) \o JoinTerms(IndicatorTerms, 1, {1, 2}),
      JoinTerms(CountryTerms, 1, {1, 2}) \o JoinTerms(IndicatorTerms, 1, {1})
          \o <<99, 111, 109, 112, 97, 114, 101, 32, 116, 114, 101, 110, 100, 32>>,
      JoinTerms(CountryTerms, 1, {2}) \o JoinTerms(IndicatorTerms, 1, {1})
          \o <<108, 97, 115, 116, 32, 121, 101, 97, 114, 32>> }

ConcurrentInit ==
    /\ ppc = "ready"
    /\ query \in [Requests -> { StrQuery(t) : t \in ConcurrentTexts }]
    /\ now \in Nows
    /\ pc = [r \in Requests |-> "received"]
    /\ parsed = [r \in Requests |-> NoValue]
    /\ data = [r \in Requests |-> <<>>]
    /\ query_params = [r \in Requests |-> NoValue]
    /\ analysis_result = [r \in Requests |-> NoValue]
    /\ report = [r \in Requests |-> NoValue]

\* self.parser.parse_query(query_text), on the request's own parser.
Parse(r) ==
    /\ pc[r] = "received"
    /\ \E ner \in NerOutcomes :
          parsed' = [parsed EXCEPT ![r] = parse_query(query[r], now, ner)]
    /\ pc' = [pc EXCEPT ![r] = "parsed"]
    /\ UNCHANGED <<ppc, query, now, data, query_params, analysis_result, report>>

\* self._fetch_data(parsed_query), and the result dict of the request.
Fetch(r) ==
    /\ pc[r] = "parsed"
    /\ data' = [data EXCEPT ![r] = fetch_data(parsed[r])]
    /\ query_params' = [query_params EXCEPT ![r] = parsed[r]]
    /\ pc' = [pc EXCEPT ![r] = "fetched"]
    /\ UNCHANGED <<ppc, query, now, parsed, analysis_result, report>>

\* The handler as it would be if result were a variable of the module that
\* the requests share: every request sees the result of the first one that
\* has fetched.
SharedResult(r) ==
    LET fetched == { q \in Requests : pc[q] \in {"fetched", "analyzed", "reported"} }
        first == CHOOSE q \in fetched : \A p \in fetched : q <= p
    IN  [query |-> query_params[first], data |-> data[first]]

\* The local variable result of the handler of request r.
ResultOf(r) == [query |-> query_params[r], data |-> data[r]]

\* analyzer.analyze_data(result["data"], result["query"])
Analyze(r) ==
    /\ pc[r] = "fetched"
    /\ \E result \in { ResultOf(r) } :
       \E residue \in IF result.query.is_trend THEN PolyfitResidues ELSE {0} :
          analysis_result' =
              [analysis_result EXCEPT ![r] = analyze_data(result.data, result.query, residue)]
    /\ pc' = [pc EXCEPT ![r] = "analyzed"]
    /\ UNCHANGED <<ppc, query, now, parsed, data, query_params, report>>

\* report_generator.generate_report(analysis_result, result["query"])
Synthesize(r) ==
    /\ pc[r] = "analyzed"
    /\ report' = [report EXCEPT ![r] =
                     generate_report(analysis_result[r], ResultOf(r).query, now)]
    /\ pc' = [pc EXCEPT ![r] = "reported"]
    /\ UNCHANGED <<ppc, query, now, parsed, data, query_params, analysis_result>>

\* The clock moves on to a later reading.
Tick ==
    /\ \E r \in Requests : pc[r] # "reported"
    /\ now' \in Nows
    /\ ~DateLeq(now', now)
    /\ UNCHANGED <<ppc, query, parsed, pc, data, query_params, analysis_result, report>>

ConcurrentNext ==
    \/ \E r \in Requests : Parse(r) \/ Fetch(r) \/ Analyze(r) \/ Synthesize(r)
    \/ Tick

ConcurrentSpec == ConcurrentInit /\ [][ConcurrentNext]_vars

(***************************************************************************)
(* Properties of the parser                                                *)
(***************************************************************************)
\* The year tokens of a text as the specification reads them: every run of
\* exactly four digits that starts with 19 or 20, with its full value.
IsYearToken(q, i) ==
    /\ i + 3 <= Len(q)
    /\ \A k \in 0..3 : IsDigit(q[i + k])
    /\ (i = 1 \/ ~IsDigit(q[i - 1]))
    /\ (i + 3 = Len(q) \/ ~IsDigit(q[i + 4]))
    /\ \/ q[i] = 49 /\ q[i + 1] = 57
       \/ q[i] = 50 /\ q[i + 1] = 48

YearTokenAt(q, i) ==
    (q[i] - 48) * 1000 + (q[i + 1] - 48) * 100 + (q[i + 2] - 48) * 10 + (q[i + 3] - 48)

YearTokens(q) == { YearTokenAt(q, i) : i \in { j \in 1..Len(q) : IsYearToken(q, j) } }

YearTokenCount(q) == Cardinality({ j \in 1..Len(q) : IsYearToken(q, j) })

SetMin(S) == CHOOSE x \in S : \A y \in S : x <= y
SetMax(S) == CHOOSE x \in S : \A y \in S : x >= y

HasSinceCue(q) ==
    Contains(<<20197, 26469>>, q) \/ Contains(<<115, 105, 110, 99, 101>>, Lower(q))

\* C1: every query parse_query returns has a non-empty countries list, a
\* non-empty indicators list and a start_date that is not later than its
\* end_date.
C1_NonEmptyAndOrdered ==
    ppc = "parsed" =>
        /\ Len(parsed.countries) > 0
        /\ Len(parsed.indicators) > 0
        /\ DateLeq(parsed.start_date, parsed.end_date)

\* C1 witness: a text with no recognizable entity was parsed, and the NER
\* fallback found nothing either, so both defaults were substituted.
C1_Witness ==
    /\ ppc = "parsed"
    /\ query = StrQuery(ExampleGibberish)
    /\ parsed.countries = DefaultCountries
    /\ parsed.indicators = DefaultIndicators

\* C2: parse_query does not raise; when an extraction step fails (the argument
\* has no lower()), what it returns is the safe default query: countries
\* [CHN, USA], the GDP default indicator, the window from 3650 days (ten years
\* of 365 days) before now to now, is_trend true, and the failure reason under
\* "error".
C2_FallbackOnFailure ==
    (ppc = "parsed" /\ ~query.is_str) =>
        /\ "error" \in DOMAIN parsed
        /\ parsed.error = "AttributeError"
        /\ parsed.countries = <<"CHN", "USA">>
        /\ parsed.indicators = <<"NY.GDP.MKTP.CD">>
        /\ parsed.end_date = now
        /\ ToOrdinal(parsed.end_date) - ToOrdinal(parsed.start_date) = 3650
        /\ parsed.start_date.year \in {now.year - 10, now.year - 9}
        /\ parsed.is_trend

\* C2 witness: a call whose extraction failed has returned, on a 31 December,
\* where the 3650-day window starts in the year now.year - 9.
C2_Witness ==
    /\ ppc = "parsed"
    /\ ~query.is_str
    /\ now = datetime(2026, 12, 31)
    /\ parsed.start_date = datetime(2017, 1, 2)

\* C9 (the claim, which the code contradicts): a text with two or more year
\* tokens parses to the window from 1 January of the smallest year to
\* 31 December of the largest; the example text parses to [CHN, USA], GDP,
\* 2010-01-01 .. 2020-12-31, is_comparison and is_trend.
C9_MinMaxYears ==
    (ppc = "parsed" /\ query.is_str /\ YearTokenCount(query.chars) >= 2) =>
        /\ parsed.start_date = datetime(SetMin(YearTokens(query.chars)), 1, 1)
        /\ parsed.end_date = datetime(SetMax(YearTokens(query.chars)), 12, 31)
        /\ query.chars = ExampleCompare =>
               /\ parsed.countries = <<"CHN", "USA">>
               /\ parsed.indicators = <<"NY.GDP.MKTP.CD">>
               /\ parsed.is_comparison
               /\ parsed.is_trend

\* C10 (the claim, which the code contradicts): a text with exactly one year
\* token Y parses to [1 January Y, 31 December of the current year] when a
\* since cue is present and to [1 January Y, 31 December Y] otherwise.
C10_SingleYear ==
    (ppc = "parsed" /\ query.is_str /\ YearTokenCount(query.chars) = 1) =>
        LET Y == SetMin(YearTokens(query.chars))
        IN  /\ parsed.start_date = datetime(Y, 1, 1)
            /\ parsed.end_date =
                   IF HasSinceCue(query.chars)
                   THEN datetime(now.year, 12, 31)
                   ELSE datetime(Y, 12, 31)

\* The relative-phrase cues: "last decade", "past five years" (with the
\* spellings "last five years" and "past 5 years"), "last year", and their
\* Chinese equivalents guo qu shi nian, guo qu wu nian, qu nian.
DecadeCue(q) ==
    Contains(<<36807, 21435, 21313, 24180>>, q) \/ Contains(<<108, 97, 115, 116, 32, 100, 101, 99, 97, 100, 101>>, Lower(q))

FiveYearsCue(q) ==
    \/ Contains(<<36807, 21435, 20116, 24180>>, q)
    \/ Contains(<<112, 97, 115, 116, 32, 102, 105, 118, 101, 32, 121, 101, 97, 114, 115>>, Lower(q))
    \/ Contains(<<108, 97, 115, 116, 32, 102, 105, 118, 101, 32, 121, 101, 97, 114, 115>>, Lower(q))
    \/ Contains(<<112, 97, 115, 116, 32, 53, 32, 121, 101, 97, 114, 115>>, Lower(q))

LastYearCue(q) ==
    Contains(<<21435, 24180>>, q) \/ Contains(<<108, 97, 115, 116, 32, 121, 101, 97, 114>>, Lower(q))

Window(first_year, last_year) ==
    [start_date |-> datetime(first_year, 1, 1), end_date |-> datetime(last_year, 12, 31)]

ParsedWindow == [start_date |-> parsed.start_date, end_date |-> parsed.end_date]

\* C11 (the claim, which the code contradicts): for a text with no year token,
\* a text carrying one relative-phrase cue parses to that cue's window (last
\* decade: current_year - 10 .. current_year; past five years:
\* current_year - 5 .. current_year; last year: current_year - 1), a text
\* carrying none parses to the default window current_year - 10 ..
\* current_year, and "asdkj" parses to the default indicator and the default
\* window with no error (its countries are the defaults unless the
\* recognizer reports a location).
C11_RelativeWindows ==
    (ppc = "parsed" /\ query.is_str /\ YearTokenCount(query.chars) = 0) =>
        LET q == query.chars
            decade == DecadeCue(q)
            five == FiveYearsCue(q)
            last == LastYearCue(q)
        IN  /\ (decade /\ ~five /\ ~last) => ParsedWindow = Window(now.year - 10, now.year)
            /\ (five /\ ~decade /\ ~last) => ParsedWindow = Window(now.year - 5, now.year)
            /\ (last /\ ~decade /\ ~five) => ParsedWindow = Window(now.year - 1, now.year - 1)
            /\ (~decade /\ ~five /\ ~last) => ParsedWindow = Window(now.year - 10, now.year)
            /\ q = ExampleGibberish =>
                   /\ parsed.indicators = DefaultIndicators
                   /\ ParsedWindow = Window(now.year - 10, now.year)
                   /\ "error" \notin DOMAIN parsed

\* The entries of a catalog whose synonym occurs in the text, case-insensitively.
MatchingEntries(map, q) ==
    { i \in 1..Len(map) : Contains(Lower(map[i].name), Lower(q)) }

MatchedCodes(map, q) == { map[i].code : i \in MatchingEntries(map, q) }

FirstMatch(map, q, code) ==
    SetMin({ i \in MatchingEntries(map, q) : map[i].code = code })

\* r lists exactly the matched codes, each once, in the order of their first
\* matching synonym in the catalog.
IsLexicalResult(r, map, q) ==
    /\ { r[k] : k \in 1..Len(r) } = MatchedCodes(map, q)
    /\ \A j, k \in 1..Len(r) :
           j < k => FirstMatch(map, q, r[j]) < FirstMatch(map, q, r[k])

\* What parse_query shows of an extraction that returned exactly the lexical
\* result: the defaults when it is empty, the result itself otherwise.
ShowsLexicalResult(shown, map, q, default) ==
    IF MatchedCodes(map, q) = {}
    THEN shown = default
    ELSE IsLexicalResult(shown, map, q)

\* C12 (the claim as stated, which the recognizer fallback contradicts):
\* extract_countries and extract_indicators each return exactly the codes of
\* the catalog synonyms that occur in the text as case-insensitive substrings,
\* each code once, in the order of the first matching synonym in the catalog.
C12_LexicalExactly ==
    (ppc = "parsed" /\ query.is_str) =>
        /\ ShowsLexicalResult(parsed.countries, country_map, query.chars, DefaultCountries)
        /\ ShowsLexicalResult(parsed.indicators, indicator_map, query.chars, DefaultIndicators)

\* C12 (amended): extract_indicators always returns exactly the lexical
\* result, and extract_countries returns exactly the lexical result whenever
\* at least one country synonym occurs in the text.
C12_LexicalWhenMatched ==
    (ppc = "parsed" /\ query.is_str) =>
        /\ MatchedCodes(country_map, query.chars) # {} =>
               IsLexicalResult(parsed.countries, country_map, query.chars)
        /\ ShowsLexicalResult(parsed.indicators, indicator_map, query.chars, DefaultIndicators)

\* C12 witness: "USChina gdp"-like text "USChina " was parsed; the codes come
\* out in catalog order (china precedes us), not in text order.
C12_Witness ==
    /\ ppc = "parsed"
    /\ query = StrQuery(<<85, 83, 67, 104, 105, 110, 97, 32>>)
    /\ parsed.countries = <<"CHN", "USA">>
    /\ parsed.indicators = DefaultIndicators

\* Some term of the lexicon occurs in the text; the lexicons are lower-case
\* and the text is matched lower-cased.
MentionsAny(terms, q) ==
    \E t \in { terms[i] : i \in 1..Len(terms) } : Contains(t, Lower(q))

C13_TrendOnlyReached ==
    ppc = "parsed" /\ query.is_str /\ ~parsed.is_comparison /\ parsed.is_trend

C13_BothReached ==
    ppc = "parsed" /\ query.is_str /\ parsed.is_comparison /\ parsed.is_trend

C13_NeitherReached ==
    ppc = "parsed" /\ query.is_str /\ ~parsed.is_comparison /\ ~parsed.is_trend

\* The chart keywords of each kind: the Chinese ones are looked up in the
\* text as given, the English ones in the lower-cased text.
ChartKeywordPresent(kind, q) ==
    CASE kind = "bar" ->
             \/ Contains(<<26609, 29366, 22270>>, q) \/ Contains(<<26609, 22270>>, q)
             \/ Contains(<<98, 97, 114, 32, 99, 104, 97, 114, 116>>, Lower(q))
      [] kind = "pie" ->
             Contains(<<39292, 22270>>, q) \/ Contains(<<112, 105, 101, 32, 99, 104, 97, 114, 116>>, Lower(q))
      [] kind = "scatter" ->
             Contains(<<25955, 28857, 22270>>, q) \/ Contains(<<115, 99, 97, 116, 116, 101, 114>>, Lower(q))
      [] kind = "heatmap" ->
             Contains(<<28909, 21147, 22270>>, q) \/ Contains(<<104, 101, 97, 116, 32, 109, 97, 112>>, Lower(q))

ChartPriority == <<"bar", "pie", "scatter", "heatmap">>

\* C14: the chart type of a parsed query is one of line, bar, scatter, pie,
\* heatmap: the first kind, in the priority bar > pie > scatter > heatmap,
\* that has a keyword in the text, and line when no kind has one.
C14_ChartPriority ==
    ppc = "parsed" =>
        /\ parsed.visualization_type \in {"line", "bar", "scatter", "pie", "heatmap"}
        /\ query.is_str =>
               LET present == { i \in 1..Len(ChartPriority) :
                                    ChartKeywordPresent(ChartPriority[i], query.chars) }
               IN  parsed.visualization_type =
                       IF present = {} THEN "line" ELSE ChartPriority[SetMin(present)]

\* C14 witness: a text that names a pie chart first and a bar chart second was
\* parsed as a request for a bar chart.
C14_Witness ==
    /\ ppc = "parsed"
    /\ query = StrQuery(<<80, 105, 101, 32, 67, 104, 97, 114, 116, 32, 98, 97, 114, 32, 99, 104, 97, 114, 116, 32>>)
    /\ parsed.visualization_type = "bar"

(***************************************************************************)
(* Properties of the analyzer and the report generator                     *)
(***************************************************************************)
\* The distinct countries and indicators of the series handed to analyze_data.
DataCountries == { data[i].country : i \in 1..Len(data) }
DataIndicators == { data[i].indicator : i \in 1..Len(data) }

Analyzed == pc \in {"analyzed", "reported"}
HasAnalysis == Analyzed /\ "comparison" \in DOMAIN analysis_result

\* C3: whenever the query's is_comparison flag is false, the comparison
\* record analyze_data returns is empty, whatever the countries and indicators
\* of the data.
C3_NoComparisonWithoutFlag ==
    (HasAnalysis /\ ~query_params.is_comparison) =>
        analysis_result.comparison = EmptyDict

\* C3 witness: data of three countries and one indicator, the shape a
\* cross-country comparison is made of, was analyzed without the flag.
C3_Witness ==
    /\ HasAnalysis
    /\ ~query_params.is_comparison
    /\ Cardinality(DataCountries) = 3
    /\ Cardinality(DataIndicators) = 1

\* C4 (the claim, which the code contradicts): with is_comparison set, the
\* comparison is cross-country exactly when the data has more than one
\* country and exactly one indicator, cross-indicator exactly when it has more
\* than one indicator and exactly one country, and empty for every other
\* shape.
C4_ComparisonShapes ==
    (HasAnalysis /\ query_params.is_comparison) =>
        LET nc == Cardinality(DataCountries)
            ni == Cardinality(DataIndicators)
            c == analysis_result.comparison
        IN  IF nc > 1 /\ ni = 1 THEN c # EmptyDict /\ c.type = "cross_country"
            ELSE IF ni > 1 /\ nc = 1 THEN c # EmptyDict /\ c.type = "cross_indicator"
            ELSE c = EmptyDict

\* The latest-dated point of a series.
LatestPoint(pts) ==
    CHOOSE p \in { pts[i] : i \in 1..Len(pts) } :
        \A j \in 1..Len(pts) : ToOrdinal(pts[j].date) <= ToOrdinal(p.date)

IsCrossCountry ==
    /\ HasAnalysis
    /\ analysis_result.comparison # EmptyDict
    /\ analysis_result.comparison.type = "cross_country"

\* C5: a cross-country comparison lists each country of the data once, with
\* the value of its latest-dated point, in descending order of that value,
\* with ranks 1..n in that order and difference_from_top equal to
\* (value - top) / top * 100, or 0 for every entry when the top value is 0;
\* latest values CHN 100, USA 90, JPN 80 give CHN rank 1 at 0, USA rank 2 at
\* -10 and JPN rank 3 at -20.
C5_CrossCountryRanking ==
    IsCrossCountry =>
        LET r == analysis_result.comparison.rankings
            top == r[1].value
        IN  /\ Len(r) = Cardinality(DataCountries)
            /\ { r[i].country : i \in 1..Len(r) } = DataCountries
            /\ \A i \in 1..Len(r) :
                  /\ r[i].rank = i
                  /\ \E k \in 1..Len(data) :
                        /\ data[k].country = r[i].country
                        /\ r[i].value = LatestPoint(data[k].data).value
                        /\ r[i].date = LatestPoint(data[k].data).date
                  /\ i > 1 => r[i - 1].value >= r[i].value
                  /\ IsFinite(r[i].difference_from_top)
                  /\ IF top = 0 THEN r[i].difference_from_top.n = 0
                     ELSE r[i].difference_from_top.n * top
                          = (r[i].value - top) * 100 * r[i].difference_from_top.d
            /\ [i \in 1..Len(r) |-> <<r[i].country, r[i].value>>]
                   = <<<<NameCHN, 100>>, <<NameUSA, 90>>, <<NameJPN, 80>>>>
               => [i \in 1..Len(r) |-> r[i].difference_from_top]
                      = <<RInt(0), RInt(-10), RInt(-20)>>

\* C5 witness: the comparison of the example was made, from series whose
\* points do not arrive in date order.
C5_Witness ==
    /\ IsCrossCountry
    /\ Len(data) = 3
    /\ data[2].data = <<Point(2020, 90), Point(2019, 100)>>
    /\ LET r == analysis_result.comparison.rankings
       IN  [i \in 1..Len(r) |-> <<r[i].country, r[i].value, r[i].rank>>]
               = <<<<NameCHN, 100, 1>>, <<NameUSA, 90, 2>>, <<NameJPN, 80, 3>>>>

\* The zero case of C5: the top value is 0 and the runner-up's latest value
\* is negative.
C5_ZeroTopReached ==
    /\ IsCrossCountry
    /\ analysis_result.comparison.rankings[1].value = 0
    /\ analysis_result.comparison.rankings[2].value < 0

\* C6: for an empty sequence of series analyze_data returns the no-data
\* result, an error marker without statistics, trend, comparison or chart.
C6_NoDataResult ==
    (Analyzed /\ data = <<>>) => analysis_result = [error |-> "no_data"]

\* C6 witness: analyze_data has returned for an empty sequence.
C6_Witness == pc = "analyzed" /\ data = <<>> /\ "error" \in DOMAIN analysis_result

\* A report that says no data was found would do so in its title or in a
\* sentence of its summary.
StatesNoData(rep) ==
    \/ rep.title.kind = "no_data_found"
    \/ \E i \in 1..Len(rep.summary) : rep.summary[i].kind = "no_data_found"

\* C7 (the claim, which the code contradicts): for the no-data marker
\* generate_report produces a report whose title or summary states that no
\* data was found.
C7_NoDataReport ==
    (pc = "reported" /\ "error" \in DOMAIN analysis_result) => StatesNoData(report)

\* The number texts of a sentence or finding.
NumberTexts(s) ==
    { s[f] : f \in DOMAIN s \cap {"value", "change", "lead", "strength", "min", "max"} }

AllSentences(rep) ==
    LET parts == rep.summary
        clauses(i) == IF "clauses" \in DOMAIN parts[i] THEN parts[i].clauses ELSE <<>>
    IN  { parts[i] : i \in 1..Len(parts) }
        \cup UNION { { clauses(i)[j] : j \in 1..Len(clauses(i)) } : i \in 1..Len(parts) }
        \cup { rep.key_findings[i] : i \in 1..Len(rep.key_findings) }

\* C8 (the claim, which the code contradicts): no comparison field and no
\* generated sentence, of the summary or of the key findings, carries an
\* infinite or NaN value.
C8_NoInfOrNaN ==
    pc = "reported" =>
        /\ \A s \in AllSentences(report) : \A t \in NumberTexts(s) : t.text = "number"
        /\ IsCrossCountry =>
               \A i \in 1..Len(analysis_result.comparison.rankings) :
                   IsFinite(analysis_result.comparison.rankings[i].difference_from_top)

(***************************************************************************)
(* Properties of the statistics and the trends                             *)
(***************************************************************************)
HasStatistics == Analyzed /\ "statistics" \in DOMAIN analysis_result

StatRecords ==
    { analysis_result.statistics[i].value : i \in 1..Len(analysis_result.statistics) }

\* The points of the series a record is about, and their values.
PointsOf(rec) ==
    LET s == CHOOSE i \in 1..Len(data) :
                 data[i].country = rec.country /\ data[i].indicator = rec.indicator
    IN  data[s].data

ValuesOf(rec) == { PointsOf(rec)[i].value : i \in 1..Len(PointsOf(rec)) }

RLeq(a, b) == a.n * b.d <= b.n * a.d

LatestIndex(pts) ==
    CHOOSE l \in 1..Len(pts) :
        \A j \in 1..Len(pts) : ToOrdinal(pts[j].date) <= ToOrdinal(pts[l].date)

PreviousIndex(pts) ==
    CHOOSE p \in 1..Len(pts) \ {LatestIndex(pts)} :
        \A j \in 1..Len(pts) \ {LatestIndex(pts)} :
            ToOrdinal(pts[j].date) <= ToOrdinal(pts[p].date)

EarliestPoint(pts) ==
    CHOOSE p \in { pts[i] : i \in 1..Len(pts) } :
        \A j \in 1..Len(pts) : ToOrdinal(p.date) <= ToOrdinal(pts[j].date)

SpanDays(pts) == ToOrdinal(pts[LatestIndex(pts)].date) - ToOrdinal(EarliestPoint(pts).date)

\* The GDP marker in a display name, in any case.
HasGdpMarker(name) ==
    \E i \in 1..(Len(name) - 2) :
        /\ name[i] \in {71, 103}
        /\ name[i + 1] \in {68, 100}
        /\ name[i + 2] \in {80, 112}

\* C16: a statistics record has a cagr field iff its group has at least two
\* points, its indicator name contains the GDP marker in any case, the span
\* from the earliest to the latest date is positive and the earliest-dated
\* value is positive.
C16_CagrPresence ==
    HasStatistics =>
        \A rec \in StatRecords :
            "cagr" \in DOMAIN rec <=>
                /\ Len(PointsOf(rec)) >= 2
                /\ HasGdpMarker(rec.indicator)
                /\ SpanDays(PointsOf(rec)) > 0
                /\ EarliestPoint(PointsOf(rec)).value > 0

\* C16 witness: statistics were computed for two GDP series of several
\* points, one with a cagr and one, whose earliest value is 0, without.
C16_Witness ==
    /\ HasStatistics
    /\ \E a, b \in StatRecords :
           /\ HasGdpMarker(a.indicator) /\ HasGdpMarker(b.indicator)
           /\ "cagr" \in DOMAIN a
           /\ Len(PointsOf(b)) >= 2 /\ EarliestPoint(PointsOf(b)).value = 0
           /\ "cagr" \notin DOMAIN b

\* C17: a statistics record has a recent_change_pct field iff its group has at
\* least two points and the value before the latest, by date, is not 0; the
\* field is then (latest - previous) / previous * 100.  The series 100, 110, 80
\* over 2018-2020 has mean 96.67, max 110, min 80 and recent_change_pct -27.27.
C17_RecentChange ==
    HasStatistics =>
        \A rec \in StatRecords :
            LET pts == PointsOf(rec)
                latest == pts[LatestIndex(pts)].value
                previous == pts[PreviousIndex(pts)].value
            IN  /\ "recent_change_pct" \in DOMAIN rec <=> (Len(pts) >= 2 /\ previous # 0)
                /\ "recent_change_pct" \in DOMAIN rec =>
                       rec.recent_change_pct = Rat((latest - previous) * 100, previous)
                /\ ValuesOf(rec) = {80, 100, 110} =>
                       /\ Fmt2(rec.mean).hundredths = 9667
                       /\ rec.max = 110 /\ rec.min = 80
                       /\ Fmt2(rec.recent_change_pct).hundredths = -2727

\* C17 witness: the statistics of the series 100, 110, 80, stored latest point
\* first, were computed and carry the change from 110 to 80.
C17_Witness ==
    /\ HasStatistics
    /\ \E rec \in StatRecords :
           /\ PointsOf(rec)[1] = Point(2020, 80)
           /\ Len(PointsOf(rec)) = 3
           /\ "recent_change_pct" \in DOMAIN rec
           /\ rec.recent_change_pct = Rat(-300, 11)

TrendRecords ==
    { analysis_result.trend_analysis[i].value : i \in 1..Len(analysis_result.trend_analysis) }

\* The series of the data that have at least three points, all of one value.
ConstantSeries ==
    { i \in 1..Len(data) :
          /\ Len(data[i].data) >= 3
          /\ \A j \in 1..Len(data[i].data) : data[i].data[j].value = data[i].data[1].value }

\* C18 (the claim, which the computed slope contradicts): for every series of
\* at least three points that all have one value, the trend analysis yields a
\* record with slope 0, direction flat, R squared 0 and no inflection points.
C18_ConstantSeriesFlat ==
    (HasAnalysis /\ query_params.is_trend) =>
        \A i \in ConstantSeries :
            \E rec \in TrendRecords :
                /\ rec.country = data[i].country /\ rec.indicator = data[i].indicator
                /\ rec.slope.n = 0 /\ rec.slope.residue = 0
                /\ rec.overall_trend = "flat"
                /\ rec.trend_strength = RInt(0)
                /\ "inflection_points" \notin DOMAIN rec

\* What of C18 does hold: the record exists, the exact least-squares slope is
\* 0, R squared is 0 and there are no inflection points; the direction is flat
\* when the values are 0 throughout.
C18_ExceptDirection ==
    (HasAnalysis /\ query_params.is_trend) =>
        \A i \in ConstantSeries :
            \E rec \in TrendRecords :
                /\ rec.country = data[i].country /\ rec.indicator = data[i].indicator
                /\ rec.slope.n = 0
                /\ rec.trend_strength = RInt(0)
                /\ "inflection_points" \notin DOMAIN rec
                /\ data[i].data[1].value = 0 => rec.overall_trend = "flat"

(***************************************************************************)
(* Properties of the fetch and of the endpoint                             *)
(***************************************************************************)
\* A request has been answered, for the first or for the second time.
Answered == pc \in {"reported", "reported_again"}

\* The requested pairs, country-major, and whether the store can serve one.
RequestedPairs ==
    LET nc == Len(parsed.countries)
        ni == Len(parsed.indicators)
    IN  [k \in 1..(nc * ni) |->
            [country |-> parsed.countries[((k - 1) \div ni) + 1],
             indicator |-> parsed.indicators[((k - 1) % ni) + 1]]]

RowsInWindow(pair) ==
    { k \in 1..Len(StoreDataPoints) :
          /\ StoreDataPoints[k].country = pair.country
          /\ StoreDataPoints[k].indicator = pair.indicator
          /\ DateLeq(parsed.start_date, StoreDataPoints[k].date)
          /\ DateLeq(StoreDataPoints[k].date, parsed.end_date) }

Served(pair) ==
    /\ \E r \in 1..Len(StoreCountries) : StoreCountries[r].code = pair.country
    /\ \E r \in 1..Len(StoreIndicators) : StoreIndicators[r].code = pair.indicator
    /\ RowsInWindow(pair) # {}

ServedPairs == SelectSeq(RequestedPairs, Served)

CountryName(code) ==
    (CHOOSE r \in { StoreCountries[k] : k \in 1..Len(StoreCountries) } : r.code = code).name

IndicatorName(code) ==
    (CHOOSE r \in { StoreIndicators[k] : k \in 1..Len(StoreIndicators) } : r.code = code).name

\* C20: the data of a request is one series for each requested pair whose
\* country and indicator are in the store and which has a row in the window,
\* in the requested order (country-major, then indicator), each with exactly
\* the rows of its pair in the window; the other pairs are left out and take
\* no served pair with them.
C20_OneSeriesPerServedPair ==
    Answered =>
        /\ Len(data) = Len(ServedPairs)
        /\ \A k \in 1..Len(data) :
               /\ data[k].country = CountryName(ServedPairs[k].country)
               /\ data[k].indicator = IndicatorName(ServedPairs[k].indicator)
               /\ Len(data[k].data) = Cardinality(RowsInWindow(ServedPairs[k]))
               /\ \A p \in 1..Len(data[k].data) :
                      \E r \in RowsInWindow(ServedPairs[k]) :
                          /\ StoreDataPoints[r].date = data[k].data[p].date
                          /\ StoreDataPoints[r].value = data[k].data[p].value

\* C20 witness: China and the US were asked for GDP and CPI; USA has no CPI
\* rows, and the three other pairs came back in the requested order.
C20_Witness ==
    /\ pc = "reported"
    /\ parsed.countries = <<"CHN", "USA">>
    /\ parsed.indicators = <<"NY.GDP.MKTP.CD", "FP.CPI.TOTL.ZG">>
    /\ Len(data) = 3
    /\ data[3].country = NameUSA /\ data[3].indicator = NameGDP

\* A request with a country that is not in the store, before one that is.
C20_MissingCountryReached ==
    /\ pc = "reported"
    /\ parsed.countries = <<"IND", "JPN">>
    /\ Len(data) = 1

C19_ButTimestampAnyYear ==
    [][pc = "reported" =>
           [report' EXCEPT !.timestamp = report.timestamp] = report]_vars

SeriesTables == SelectSeq(report.data_tables, LAMBDA t : t.title = "series")

\* C21: the report of a request that retrieved N series (each of them
\* non-empty) has one table of (date, value) rows per retrieved series, in
\* the order of the series, and after them the statistics table when there
\* are statistics: N + 1 tables.
C21_TablePerSeries ==
    (Answered /\ data # <<>>) =>
        /\ "statistics" \in DOMAIN analysis_result
        /\ analysis_result.statistics # <<>>
        /\ Len(report.data_tables) = Len(data) + 1
        /\ Len(SeriesTables) = Len(data)
        /\ \A i \in 1..Len(SeriesTables) :
               /\ SeriesTables[i].country = data[i].country
               /\ SeriesTables[i].indicator = data[i].indicator
               /\ SeriesTables[i].rows = data[i].data

\* What the report does hold: the statistics table alone, with one row per
\* statistics record.
C21_StatisticsTableOnly ==
    (Answered /\ data # <<>>) =>
        /\ Len(report.data_tables) = 1
        /\ report.data_tables[1].title = "statistics_summary"
        /\ Len(report.data_tables[1].rows) = Len(analysis_result.statistics)

(***************************************************************************)
(* Properties of the summary                                               *)
(***************************************************************************)
\* The section a sentence of the summary belongs to: 1 the scope intro, 2 the
\* statistics, 3 the trends, 4 the comparison.
SectionOf(sentence) ==
    CASE sentence.kind = "intro" -> 1
      [] sentence.kind = "statistics" -> 2
      [] sentence.kind = "trends" -> 3
      [] sentence.kind \in {"best_country", "fastest_growing", "largest_decline"} -> 4
      [] OTHER -> 0

SummarySections == { SectionOf(report.summary[i]) : i \in 1..Len(report.summary) }

\* Whether a section of the analysis result has data.
SectionHasData(section) ==
    /\ section \in DOMAIN analysis_result
    /\ analysis_result[section] # (IF section = "comparison" THEN EmptyDict ELSE <<>>)

\* C22: the summary is the scope intro followed by the statistics sentence,
\* the trend sentence and the comparison sentence in this order, each at
\* most once; the statistics and trend sentences appear exactly when their
\* section has data and then have a clause to tell, the comparison sentence
\* only when the comparison has a ranking or a change to tell; a section
\* without data contributes nothing.
C22_SummaryOrder ==
    pc = "reported" =>
        /\ report.summary # <<>>
        /\ SectionOf(report.summary[1]) = 1
        /\ \A i, j \in 1..Len(report.summary) :
               i < j => 0 < SectionOf(report.summary[i])
                        /\ SectionOf(report.summary[i]) < SectionOf(report.summary[j])
        /\ 2 \in SummarySections <=> SectionHasData("statistics")
        /\ 3 \in SummarySections <=> SectionHasData("trend_analysis")
        /\ 4 \in SummarySections =>
               /\ SectionHasData("comparison")
               /\ \/ /\ analysis_result.comparison.type = "cross_country"
                     /\ analysis_result.comparison.rankings # <<>>
                  \/ /\ analysis_result.comparison.type = "cross_indicator"
                     /\ analysis_result.comparison.indicator_changes # <<>>
        /\ \A i \in 1..Len(report.summary) :
               SectionOf(report.summary[i]) \in {2, 3} => report.summary[i].clauses # <<>>

\* C22 witness: a report whose summary has all four sentences.
C22_Witness ==
    /\ pc = "reported"
    /\ Len(report.summary) = 4
    /\ SectionHasData("comparison")

\* A report on a result without statistics, trends or comparison: the intro
\* alone.
C22_IntroAloneReached ==
    /\ pc = "reported"
    /\ Len(report.summary) = 1
    /\ "error" \in DOMAIN analysis_result

\* A report with trends asked for and none found, and with a comparison.
C22_NoTrendSentenceReached ==
    /\ pc = "reported"
    /\ query_params.is_trend
    /\ SummarySections = {1, 2, 4}

\* The trend sentence of the summary, and its clauses of one kind about a
\* trend record.
TrendSentenceClauses ==
    LET sentences == SelectSeq(report.summary, LAMBDA s : s.kind = "trends")
    IN  IF sentences = <<>> THEN {}
        ELSE { sentences[1].clauses[i] : i \in 1..Len(sentences[1].clauses) }

ClausesAbout(rec, kind) ==
    { c \in TrendSentenceClauses :
          c.kind = kind /\ c.country = rec.country /\ c.indicator = rec.indicator }

ReportedTrendRecords ==
    IF "trend_analysis" \in DOMAIN analysis_result
    THEN { analysis_result.trend_analysis[i].value :
               i \in 1..Len(analysis_result.trend_analysis) }
    ELSE {}

\* C23 (the claim, which the code contradicts): for each trend group the
\* summary names the overall direction, and names the recent direction only
\* when it is available and differs from the overall direction.
C23_RecentOnlyIfDistinct ==
    pc = "reported" =>
        \A rec \in ReportedTrendRecords :
            /\ \E c \in ClausesAbout(rec, "overall") : c.trend = rec.overall_trend
            /\ ClausesAbout(rec, "recent") # {} =>
                   /\ rec.recent_trend # "insufficient"
                   /\ rec.recent_trend # rec.overall_trend

\* What the summary does: it names the overall direction of each group, and
\* the recent direction exactly when it is available, equal to the overall
\* one or not.
C23_RecentWheneverAvailable ==
    pc = "reported" =>
        \A rec \in ReportedTrendRecords :
            /\ \E c \in ClausesAbout(rec, "overall") : c.trend = rec.overall_trend
            /\ ClausesAbout(rec, "recent") # {} <=> rec.recent_trend # "insufficient"
            /\ \A c \in ClausesAbout(rec, "recent") : c.trend = rec.recent_trend

(***************************************************************************)
(* Properties of the chart                                                 *)
(***************************************************************************)
HasChart == Analyzed /\ "visualization" \in DOMAIN analysis_result

ChartTraces ==
    { analysis_result.visualization.traces[i] :
          i \in 1..Len(analysis_result.visualization.traces) }

\* The traces have the geometry of the hint: bars of one value per country
\* for bar, lines with markers for line.
GeometryFollowsHint ==
    /\ query_params.visualization_type = "bar" =>
           \A t \in ChartTraces :
               /\ t.kind = "bar"
               /\ Len(t.x) = Cardinality(DataCountries)
               /\ \A i \in 1..Len(t.x) :
                      \E s \in 1..Len(data) :
                          /\ data[s].country = t.x[i]
                          /\ LatestPoint(data[s].data).value = t.y[i]
    /\ query_params.visualization_type = "line" =>
           \A t \in ChartTraces : t.kind = "scatter" /\ t.mode = "lines+markers"

\* C24 (the claim, which the code contradicts): in each of the three layouts
\* the chart hint of the query selects the geometry of the traces, and with
\* the hint bar the chart shows only the latest point of each country.
C24_HintSelectsGeometry ==
    HasChart => GeometryFollowsHint

\* What the code does: the hint is followed in the layout of one indicator;
\* the two other layouts draw lines with markers through every point.
C24_HintInOneIndicatorLayout ==
    HasChart =>
        IF analysis_result.visualization.layout = "countries_overlaid"
        THEN GeometryFollowsHint
        ELSE \A t \in ChartTraces :
                 /\ t.kind = "scatter" /\ t.mode = "lines+markers"
                 /\ \E s \in 1..Len(data) : Len(t.y) = Len(data[s].data)

(***************************************************************************)
(* Properties of the inflection points, the recent trend and the groups    *)
(***************************************************************************)
HasTrends == Analyzed /\ "trend_analysis" \in DOMAIN analysis_result

\* The points of the series a record is about, by date, and their values.
SortedPointsOf(rec) == SortByDate(PointsOf(rec))

SortedValuesOf(rec) == Column(SortedPointsOf(rec), "value")

\* The 1-based positions i at which the difference into the next point and
\* the difference out of it differ in sign, a difference of zero counting as
\* not negative.
SignChangePositions(y) ==
    { i \in 1..(Len(y) - 2) : (y[i + 1] - y[i] < 0) # (y[i + 2] - y[i + 1] < 0) }

NonDecreasing(y) == \A i \in 1..(Len(y) - 1) : y[i] <= y[i + 1]

NonIncreasing(y) == \A i \in 1..(Len(y) - 1) : y[i] >= y[i + 1]

InflectionDates(rec) ==
    IF "inflection_points" \in DOMAIN rec THEN rec.inflection_points ELSE <<>>

\* The inflection dates of a record are the dates of the points after each
\* sign change, in order of date.
AtSignChanges(rec) ==
    LET pts == SortedPointsOf(rec)
        dates == InflectionDates(rec)
        changes == SignChangePositions(SortedValuesOf(rec))
    IN  /\ Len(dates) = Cardinality(changes)
        /\ \A i \in changes : \E k \in 1..Len(dates) : dates[k] = pts[i + 1].date
        /\ \A k \in 1..(Len(dates) - 1) : ~DateLeq(dates[k + 1], dates[k])

\* C25 (the claim, which the code contradicts): a trend record has an
\* inflection date exactly for each place where the sign of the first
\* difference changes, the date of the point after the change; a series
\* that never reverses direction, non-decreasing or non-increasing, has no
\* inflection points.
C25_InflectionAtReversals ==
    HasTrends =>
        \A rec \in TrendRecords :
            /\ AtSignChanges(rec)
            /\ (NonDecreasing(SortedValuesOf(rec)) \/ NonIncreasing(SortedValuesOf(rec)))
                   => InflectionDates(rec) = <<>>

\* What the code does: an inflection date for each position where the sign
\* bit of the difference changes, so that a level step before or after a
\* fall counts as a reversal; a non-decreasing series has none.
C25_InflectionAtSignBitChanges ==
    HasTrends =>
        \A rec \in TrendRecords :
            /\ AtSignChanges(rec)
            /\ NonDecreasing(SortedValuesOf(rec)) => InflectionDates(rec) = <<>>

\* The sign of the exact least-squares slope of y against 0, 1, 2, ...
SlopeSign(y) == Sign(Slope(y).n) * Sign(Slope(y).d)

\* The direction a fit of y may be given: that of the sign of the slope, and
\* any direction where the exact slope is zero and the values are not, since
\* the computed slope is then a rounding residue.
DirectionsOfFit(y) ==
    IF SlopeSign(y) > 0 THEN {"rising"}
    ELSE IF SlopeSign(y) < 0 THEN {"falling"}
    ELSE IF \A i \in 1..Len(y) : y[i] = 0 THEN {"flat"}
    ELSE {"rising", "falling", "flat"}

DataGroups == { [country |-> data[i].country, indicator |-> data[i].indicator] :
                    i \in 1..Len(data) }

GroupSize(g) ==
    Sum([i \in 1..Len(data) |->
            IF data[i].country = g.country /\ data[i].indicator = g.indicator
            THEN Len(data[i].data) ELSE 0])

TrendRecordsOf(g) ==
    { i \in 1..Len(analysis_result.trend_analysis) :
          /\ analysis_result.trend_analysis[i].value.country = g.country
          /\ analysis_result.trend_analysis[i].value.indicator = g.indicator }

\* The sign of the fitted slope of a record: that of the exact slope, or of
\* the rounding residue where the exact slope is zero.
FittedSign(slope) ==
    IF slope.n # 0 THEN Sign(slope.n) * Sign(slope.d) ELSE Sign(slope.residue)

C27_NoFlagReached ==
    /\ HasAnalysis
    /\ ~query_params.is_trend
    /\ \E g \in DataGroups : GroupSize(g) >= 3

\* A flat entry: a slope of exactly zero.
C27_FlatReached ==
    /\ HasAnalysis
    /\ \E rec \in TrendRecords : rec.overall_trend = "flat" /\ FittedSign(rec.slope) = 0

(***************************************************************************)
(* Properties of concurrent requests                                       *)
(***************************************************************************)
\* The steps request r has taken.
Past(r, step) ==
    CASE step = "parse" -> pc[r] # "received"
      [] step = "fetch" -> pc[r] \in {"fetched", "analyzed", "reported"}
      [] step = "analyze" -> pc[r] \in {"analyzed", "reported"}
      [] step = "synthesize" -> pc[r] = "reported"

\* C28: whatever the interleaving of the steps of the requests, what each
\* request holds is what it produces when run alone: its query is the parse
\* of its own text at a reading of the clock, its data the fetch of its own
\* query, its analysis that of its own data and query, and its report that
\* of its own analysis and query at a reading of the clock.
C28_RequestsIndependent ==
    \A r \in Requests :
        /\ Past(r, "parse") =>
               \E t \in Nows, ner \in NerOutcomes :
                   DateLeq(t, now) /\ parsed[r] = parse_query(query[r], t, ner)
        /\ Past(r, "fetch") =>
               /\ data[r] = fetch_data(parsed[r])
               /\ query_params[r] = parsed[r]
        /\ Past(r, "analyze") =>
               \E residue \in PolyfitResidues :
                   analysis_result[r] = analyze_data(data[r], parsed[r], residue)
        /\ Past(r, "synthesize") =>
               \E t \in Nows :
                   DateLeq(t, now)
                   /\ report[r] = generate_report(analysis_result[r], parsed[r], t)

\* C28 witness: two requests with different texts are in flight, the first
\* analyzed and the second fetched, with different queries and data.
C28_Witness ==
    /\ pc[1] = "analyzed"
    /\ pc[2] = "fetched"
    /\ query[1] # query[2]
    /\ parsed[1] # parsed[2]
    /\ Len(data[1]) = 2
    /\ Len(data[2]) = 1

\* Both requests have their reports, the second a later one of no data.
C28_BothReportedReached ==
    /\ \A r \in Requests : pc[r] = "reported"
    /\ query[1] # query[2]
    /\ Len(data[1]) = 2
    /\ data[2] = <<>>
    /\ ~DateLeq(report[2].timestamp, report[1].timestamp)

\* The statistics records about a group.
StatRecordsOf(g) ==
    { i \in 1..Len(analysis_result.statistics) :
          /\ analysis_result.statistics[i].value.country = g.country
          /\ analysis_result.statistics[i].value.indicator = g.indicator }

\* C29 (the claim, which the record key contradicts): analyze_data returns
\* exactly one statistics record for each distinct (country, indicator) pair
\* of the data, so that there are as many records as pairs, and the key of
\* every trend record is the key of a statistics record.
C29_OneRecordPerPair ==
    HasAnalysis =>
        /\ Len(analysis_result.statistics) = Cardinality(DataGroups)
        /\ \A g \in DataGroups : Cardinality(StatRecordsOf(g)) = 1
        /\ \A i \in 1..Len(analysis_result.trend_analysis) :
               \E j \in 1..Len(analysis_result.statistics) :
                   analysis_result.statistics[j].key = analysis_result.trend_analysis[i].key

\* What the code does return: one record for each distinct key
\* country_indicator, that of the last pair with this key in the order of
\* the groups, and the trend keys among the statistics keys.
C29_OneRecordPerKey ==
    HasAnalysis =>
        /\ Len(analysis_result.statistics) =
               Cardinality({ Key(g.country, g.indicator) : g \in DataGroups })
        /\ \A g \in DataGroups :
               \E j \in 1..Len(analysis_result.statistics) :
                   analysis_result.statistics[j].key = Key(g.country, g.indicator)
        /\ \A i \in 1..Len(analysis_result.trend_analysis) :
               \E j \in 1..Len(analysis_result.statistics) :
                   analysis_result.statistics[j].key = analysis_result.trend_analysis[i].key

(***************************************************************************)
(* Properties of the order of the points                                   *)
(***************************************************************************)
\* The data with the points of every series in order of date.
DateSortedData ==
    [i \in 1..Len(data) |-> [data[i] EXCEPT !.data = SortByDate(data[i].data)]]

====
